---- MODULE Spec2Model ----
(***************************************************************************)
(* The alert-evaluation engine of the Polymarket alert service:            *)
(* executeWorkflow (one pass over state.alertConfigs) with its helpers     *)
(* fetchMarketData, checkAlertCondition and sendAlert, and the two HTTP    *)
(* handlers that change state.alertConfigs (POST /alerts, DELETE           *)
(* /alerts/:id).                                                           *)
(*                                                                         *)
(* One pass is modelled one loop iteration at a time.  The pass is         *)
(* suspended at its two awaits (pc = "fetch", pc = "notify"); wall-clock   *)
(* time passes only while the pass is suspended or idle.  Times are in     *)
(* milliseconds, as Date.now() gives them.  Prices are the fractions the   *)
(* data source returns, kept exact as num/den.                             *)
(***************************************************************************)
EXTENDS Integers, Sequences, FiniteSets, TLC

VARIABLES
    alertConfigs,     \* state.alertConfigs: sequence of AlertConfig
    lastChecked,      \* state.lastChecked: marketId -> ms, a partial map
    triggeredAlerts,  \* state.triggeredAlerts: sequence of alert-key strings
    clock,            \* wall clock, in ticks since the process started
    pc,               \* where the pass is: "idle", "loop", "fetch", "notify"
    now,              \* the pass's `now` (0 before the first pass)
    idx,              \* 1-based position of the for..of iterator
    config,           \* the loop's `config`
    alerts,           \* the pass's `alerts` (its return value once idle)
    pending,          \* market.question and currentPrice, live across sendAlert
    script,           \* environment: "good" when the data source and the
                      \*   webhook answer every request of this pass favourably
    observed,         \* history: what the fetch that just returned delivered
    eligible,         \* history: positions unfired and last polled more than
                      \*   60 s ago when the pass began
    posts,            \* history: POST /alerts requests that created an alert
    delivered,        \* history: ConditionKey -> notifications answered OK
    lastFailed,       \* history: ConditionKey whose notification failed and
                      \*   has not been fetched for again since
    lastFetchAt,      \* history: marketId -> wall-clock ms of its last fetch
    polledIn,         \* history: marketId -> `now` of the pass of its last fetch
    edited,           \* history: alertConfigs changed since the last pass began
    rateSkips,        \* history: the pass skipped a condition on the rate limit
    within60,         \* history: the pass began < 60 s after the previous one
                      \*   began, with no edit since that one began
    prevRateSkips,    \* history: within60, and the previous pass had rateSkips
    apart60,          \* history: the pass is the first, or began 60 s or more
                      \*   after the previous one began
    unfired0,         \* history: positions unfired when the pass began
    due,              \* history: positions whose condition is met by the data
                      \*   fetched for its market in this pass, less those
                      \*   whose notification failed in this pass
    revived,          \* history: an alert was created whose key had fired and
                      \*   which was not in the list at the time
    pc2,              \* a second, overlapping call of executeWorkflow: where it is
    now2,             \* its `now`
    idx2,             \* its iterator
    config2,          \* its `config`
    pending2,         \* its market.question and currentPrice across sendAlert
    alerts2,          \* its `alerts`
    pendingPayments,  \* state.pendingPayments: set of [nonce, config, expiry]
    reply,            \* the HTTP status of the last POST /alerts answered
    paidFor,          \* history: transaction hash -> alerts created on its proof
    payment,          \* history: what verification made of the last POST's proof:
                      \*   "none", "malformed", "invalid" or "valid"
    idParam,          \* history: the :id of the last DELETE /alerts/:id, "" before any
    webhook,          \* the POST sendAlert has in flight: its url and JSON body
    input,            \* the text handed to the parser, <<>> before any
    one,              \* what parseAlertRequest(input) returned
    many,             \* what parseMultiConditionAlert(input) returned
    asked,            \* which of the two the caller has run: "one", "many"
    trial,            \* a state and the scripted responses two runs are given
    outcomes,         \* run -> Date.now() it read and { state, alerts } it returned
    visited,          \* history: the conditions the pass has taken as `config`
    removed,          \* history: the conditions a DELETE took out of the list
                      \*   while the pass was suspended at an await
    fetched,          \* history: the marketIds the pass has called
                      \*   fetchMarketData for, in order
    issued,           \* history: for each listed alert, in list order, the id
                      \*   the POST /alerts that created it returned
    verified          \* a call of verifyPayment: the proof, what the Base RPC
                      \*   answered and what the call returned

vars == << alertConfigs, lastChecked, triggeredAlerts, clock, pc, now, idx,
           config, alerts, pending, script, observed, eligible, posts,
           delivered, lastFailed, lastFetchAt, polledIn, edited, rateSkips,
           within60, prevRateSkips ,
          apart60, unfired0, due, revived, pc2, now2, idx2, config2, pending2, alerts2,
          pendingPayments, reply, paidFor, payment, idParam, webhook,
          input, one, many, asked, trial, outcomes, visited, removed,
          fetched, issued, verified >>

(* The variables of the second call, and those of the HTTP API alone *)
pass2vars == << pc2, now2, idx2, config2, pending2, alerts2 >>
apivars == << pendingPayments, reply, paidFor, payment, idParam, issued, verified >>
payvars == << pendingPayments, reply, paidFor, payment, idParam, verified >>

(* The variables of the parser, and those of the two compared runs *)
parsevars == << input, one, many, asked >>
runvars == << trial, outcomes >>

(* What is recorded of a pass for the requests that arrive during it *)
passhist == << visited, removed, fetched >>

----------------------------------------------------------------------------
(* Bounds of the model *)

MaxPosts == 2
MaxTicks == 2
TickMs == 30000
StartMs == 600000

(* Program constants *)

RATE_LIMIT_MS == 60000
PERCENT == 100

----------------------------------------------------------------------------
(* Values *)

Markets == {"m1", "m2"}
NotifyUrls == {"https://hook"}

(* What a condition watches: outcome, threshold, direction. *)
Watches ==
    { << "Yes", 60, "above" >>, << "No", 50, "below" >> }

AlertConfig ==
    { [marketId |-> m, outcome |-> w[1], threshold |-> w[2], direction |-> w[3],
       notifyUrl |-> u] : m \in Markets, w \in Watches, u \in NotifyUrls }

Prices == { [num |-> 50, den |-> 100], [num |-> 60, den |-> 100],
            [num |-> 65, den |-> 100] }
TokenLabels == {"yes", "No"}
PolymarketToken == [outcome : TokenLabels, price : Prices]

TokenLists ==
    { <<>> } \cup { << t >> : t \in PolymarketToken }
             \cup { p \in { << t, u >> : t \in PolymarketToken, u \in PolymarketToken } :
                        p[1].outcome # p[2].outcome }

Questions == {"Will it happen?"}
PolymarketMarket ==
    [question : Questions, active : BOOLEAN, closed : BOOLEAN,
     tokens : TokenLists]

NoConfig == [marketId |-> "none"]
NoPending == [question |-> "none"]
NoPrice == [num |-> -1, den |-> 1]
NoFetch == [kind |-> "none", price |-> NoPrice]
Null == [null |-> TRUE]
NoReply == [status |-> 0, error |-> ""]
NoRequest == [url |-> "none"]
NoTrial == [source |-> "none"]
NoCall == [proof |-> "none"]

(* What the data source can answer to GET /markets/:id, and the webhook to *)
(* the POST: the request throws, the status is not OK, or a body arrives.  *)
FetchResponses ==
    { [kind |-> "throw"], [kind |-> "status"] }
    \cup { [kind |-> "json", body |-> b] : b \in PolymarketMarket \cup {Null} }
NotifyResponses == {"ok", "status", "throw"}

(* Date.now() *)
DateNow == StartMs + clock * TickMs

(* `${marketId}-${outcome}-${threshold}-${direction}` *)
AlertKey(c) ==
    c.marketId \o "-" \o c.outcome \o "-" \o ToString(c.threshold) \o "-" \o c.direction

(* The ConditionKey of the specification: the tuple itself. *)
ConditionKey(c) == << c.marketId, c.outcome, c.threshold, c.direction >>

(* Array.prototype.includes *)
Includes(seq, x) == \E i \in 1..Len(seq) : seq[i] = x

(* String.prototype.toLowerCase on the labels in use *)
ToLowerCase(s) ==
    CASE s = "Yes" -> "yes"
      [] s = "No"  -> "no"
      [] s = "Trump" -> "trump"
      [] s = "Biden" -> "biden"
      [] s = "Will" -> "will"
      [] s = "Alert" -> "alert"
      [] s = "AND" -> "and"
      [] s = "I" -> "i"
      [] s = "0x8Da63b5f30e603E2D11a924C3976F67E63035cF0"
            -> "0x8da63b5f30e603e2d11a924c3976f67e63035cf0"
      [] s = "0x833589fCD6eDb6E08f4c7C32D4f71b54bdA02913"
            -> "0x833589fcd6edb6e08f4c7c32d4f71b54bda02913"
      [] s = "0xAb5801a7D398351b8bE11C439e05C5B3259aeC9B"
            -> "0xab5801a7d398351b8be11c439e05c5b3259aec9b"
      [] OTHER     -> s

(* state.lastChecked[marketId] || 0 *)
LastCheckedOf(m) == IF m \in DOMAIN lastChecked THEN lastChecked[m] ELSE 0

(* obj[k] = v on a plain object *)
Put(f, k, v) == [x \in DOMAIN f \cup {k} |-> IF x = k THEN v ELSE f[x]]

----------------------------------------------------------------------------
(* Helpers of the workflow *)

(* fetchMarketData: null on a thrown error or a non-OK status, else the body *)
FetchMarketData(resp) ==
    IF resp.kind = "json" THEN resp.body ELSE Null

(* market.tokens.find(t => t.outcome.toLowerCase() === outcome.toLowerCase()) *)
FindToken(tokens, outcome) ==
    LET hits == { i \in 1..Len(tokens) :
                    ToLowerCase(tokens[i].outcome) = ToLowerCase(outcome) }
    IN  IF hits = {} THEN Null
        ELSE tokens[CHOOSE i \in hits : \A j \in hits : i <= j]

(* Mutant: the comparisons are strict. *)
MeetsThreshold_Strict(price, c) ==
    IF c.direction = "above"
    THEN price.num * PERCENT > c.threshold * price.den
    ELSE price.num * PERCENT < c.threshold * price.den

(* currentPrice >= / <= config.threshold, with currentPrice = price * 100 *)
MeetsThreshold(price, c) ==
    IF c.direction = "above"
    THEN price.num * PERCENT >= c.threshold * price.den
    ELSE price.num * PERCENT <= c.threshold * price.den

CheckAlertCondition(market, c) ==
    LET token == FindToken(market.tokens, c.outcome)
    IN  IF token = Null THEN FALSE ELSE MeetsThreshold(token.price, c)

(* Mutant: any response counts as sent; only a thrown error does not. *)
SendAlert_IgnoresStatus(resp) == resp # "throw"

(* sendAlert: response.ok, false on a thrown error *)
SendAlert(resp) == resp = "ok"

(* currentPrice.toFixed(2), as hundredths of a percent, rounded half up *)
ToFixed2(price) ==
    (price.num * PERCENT * PERCENT * 2 + price.den) \div (2 * price.den)

(* Mutant: the body names the outcome by the label of the market's first token. *)
SendAlertRequest_MarketLabel(c, market, price) ==
    [url |-> c.notifyUrl,
     body |-> [type |-> "prediction_market_alert", marketId |-> c.marketId,
               question |-> market.question, outcome |-> market.tokens[1].outcome,
               threshold |-> c.threshold, direction |-> c.direction,
               currentPrice |-> ToFixed2(price), triggeredAt |-> DateNow]]

(* fetch(config.notifyUrl, { method: 'POST', body: JSON.stringify({...}) }) *)
SendAlertRequest(c, market, price) ==
    [url |-> c.notifyUrl,
     body |-> [type |-> "prediction_market_alert", marketId |-> c.marketId,
               question |-> market.question, outcome |-> c.outcome,
               threshold |-> c.threshold, direction |-> c.direction,
               currentPrice |-> ToFixed2(price), triggeredAt |-> DateNow]]

(* currentPrice.toFixed(1), as tenths of a percent, rounded half up *)
ToFixed1(price) == (price.num * PERCENT * 10 * 2 + price.den) \div (2 * price.den)

(* `Alert triggered: ${market.question} - ${config.outcome} at ${currentPrice.toFixed(1)}%` *)
Description(question, c, price) ==
    [question |-> question, outcome |-> c.outcome, pct10 |-> ToFixed1(price)]


----------------------------------------------------------------------------
(* The state of api.ts, lines 17..27, before any request or pass *)
Init ==
    /\ alertConfigs = <<>>
    /\ lastChecked = <<>>
    /\ triggeredAlerts = <<>>
    /\ clock = 0
    /\ pc = "idle"
    /\ now = 0
    /\ idx = 1
    /\ config = NoConfig
    /\ alerts = <<>>
    /\ pending = NoPending
    /\ script = "any"
    /\ observed = NoFetch
    /\ eligible = {}
    /\ posts = 0
    /\ delivered = <<>>
    /\ lastFailed = <<>>
    /\ lastFetchAt = <<>>
    /\ polledIn = <<>>
    /\ edited = FALSE
    /\ rateSkips = FALSE
    /\ within60 = FALSE
    /\ prevRateSkips = FALSE
    /\ apart60 = FALSE
    /\ unfired0 = {}
    /\ due = {}
    /\ revived = FALSE
    /\ pc2 = "idle"
    /\ now2 = 0
    /\ idx2 = 1
    /\ config2 = NoConfig
    /\ pending2 = NoPending
    /\ alerts2 = <<>>
    /\ pendingPayments = {}
    /\ reply = NoReply
    /\ paidFor = <<>>
    /\ payment = "none"
    /\ idParam = ""
    /\ webhook = NoRequest
    /\ input = <<>>
    /\ one = Null
    /\ many = <<>>
    /\ asked = {}
    /\ trial = NoTrial
    /\ outcomes = <<>>
    /\ visited = <<>>
    /\ removed = <<>>
    /\ fetched = <<>>
    /\ issued = <<>>
    /\ verified = NoCall

(* Time passes while the pass is suspended at an await, or between passes. *)
Tick ==
    /\ pc \in {"idle", "fetch", "notify"}
    /\ clock < MaxTicks
    /\ clock' = clock + 1
    /\ UNCHANGED << alertConfigs, lastChecked, triggeredAlerts, pc, now, idx,
                    config, alerts, pending, script, observed, eligible, posts,
                    delivered, lastFailed, lastFetchAt, polledIn, edited,
                    rateSkips, within60, prevRateSkips,
                    apart60, revived, due, pass2vars, parsevars, runvars, passhist, webhook, apivars, unfired0 >>

(* POST /alerts, once paid for: state.alertConfigs.push(alertConfig) *)
AddAlert(c) ==
    /\ pc = "idle"
    /\ posts < MaxPosts
    /\ alertConfigs' = Append(alertConfigs, c)
    /\ posts' = posts + 1
    /\ edited' = TRUE
    /\ rateSkips' = FALSE
    /\ revived' = ( \/ revived
                    \/ /\ Includes(triggeredAlerts, AlertKey(c))
                       /\ \A i \in 1..Len(alertConfigs) :
                              ConditionKey(alertConfigs[i]) # ConditionKey(c) )
    /\ issued' = Append(issued, Len(alertConfigs))
    /\ UNCHANGED << lastChecked, triggeredAlerts, clock, pc, now, idx, config,
                    alerts, pending, script, observed, eligible, delivered,
                    lastFailed, lastFetchAt, polledIn, within60, prevRateSkips,
                    apart60, due, pass2vars, parsevars, runvars, passhist, webhook, payvars, unfired0 >>

(* Mutant: deleting an alert also forgets that its key has fired. *)
DeleteAlert_Forgets(id) ==
    /\ pc = "idle"
    /\ ~ (id < 0 \/ id >= Len(alertConfigs))
    /\ alertConfigs' = [i \in 1..(Len(alertConfigs) - 1) |->
                            IF i <= id THEN alertConfigs[i] ELSE alertConfigs[i + 1]]
    /\ triggeredAlerts' = SelectSeq(triggeredAlerts,
                                    LAMBDA k : k # AlertKey(alertConfigs[id + 1]))
    /\ edited' = TRUE
    /\ rateSkips' = FALSE
    /\ issued' = [i \in 1..(Len(issued) - 1) |->
                      IF i <= id THEN issued[i] ELSE issued[i + 1]]
    /\ UNCHANGED << lastChecked, clock, pc, now, idx, config,
                    alerts, pending, script, observed, eligible, posts,
                    delivered, lastFailed, lastFetchAt, polledIn, within60,
                    prevRateSkips,
                    apart60, revived, due, pass2vars, parsevars, runvars, passhist, webhook, payvars, unfired0 >>

(* DELETE /alerts/:id: state.alertConfigs.splice(id, 1), id counted from 0 *)
DeleteAlert(id) ==
    /\ pc = "idle"
    /\ ~ (id < 0 \/ id >= Len(alertConfigs))
    /\ alertConfigs' = [i \in 1..(Len(alertConfigs) - 1) |->
                            IF i <= id THEN alertConfigs[i] ELSE alertConfigs[i + 1]]
    /\ edited' = TRUE
    /\ rateSkips' = FALSE
    /\ issued' = [i \in 1..(Len(issued) - 1) |->
                      IF i <= id THEN issued[i] ELSE issued[i + 1]]
    /\ UNCHANGED << lastChecked, triggeredAlerts, clock, pc, now, idx, config,
                    alerts, pending, script, observed, eligible, posts,
                    delivered, lastFailed, lastFetchAt, polledIn, within60,
                    prevRateSkips,
                    apart60, revived, due, pass2vars, parsevars, runvars, passhist, webhook, payvars, unfired0 >>

(* The :id parameters of the model, and parseInt on them: << n >> for a   *)
(* number, <<>> for NaN. parseInt reads the longest prefix that is an     *)
(* integer and ignores what follows it.                                   *)
Params == {"0", "1", "2", "-1", "abc", "1abc", "1.5"}
ParseInt(s) ==
    CASE s = "0" -> << 0 >>
      [] s = "1" -> << 1 >>
      [] s = "2" -> << 2 >>
      [] s = "-1" -> << -1 >>
      [] s = "abc" -> <<>>
      [] s = "1abc" -> << 1 >>
      [] s = "1.5" -> << 1 >>
IsNaN(n) == n = <<>>

(* list.splice(id, 1), id counted from 0 *)
Splice(list, id) ==
    [i \in 1..(Len(list) - 1) |-> IF i <= id THEN list[i] ELSE list[i + 1]]

(* DELETE /alerts/:id, with its answer: 404 for an id that parseInt makes *)
(* NaN, negative or past the end, else the splice and { success: true }   *)
DeleteAlerts(param) ==
    /\ pc = "idle"
    /\ idParam' = param
    /\ IF \/ IsNaN(ParseInt(param))
          \/ ParseInt(param)[1] < 0
          \/ ParseInt(param)[1] >= Len(alertConfigs)
       THEN /\ reply' = [status |-> 404, error |-> "Alert not found"]
            /\ UNCHANGED << alertConfigs, edited, rateSkips, issued >>
       ELSE /\ alertConfigs' = Splice(alertConfigs, ParseInt(param)[1])
            /\ issued' = Splice(issued, ParseInt(param)[1])
            /\ reply' = [status |-> 200, error |-> ""]
            /\ edited' = TRUE
            /\ rateSkips' = FALSE
    /\ UNCHANGED << lastChecked, triggeredAlerts, clock, pc, now, idx, config,
                    alerts, pending, script, observed, eligible, posts,
                    delivered, lastFailed, lastFetchAt, polledIn, within60,
                    prevRateSkips, apart60, revived, due, unfired0, webhook,
                    pendingPayments, paidFor, payment, verified, pass2vars, parsevars,
                    runvars, passhist >>

(* GET /alerts: every alert with its position as id and its triggered flag *)
ListAlerts ==
    [ count |-> Len(alertConfigs),
      alerts |-> [ i \in 1..Len(alertConfigs) |->
                     [ id |-> i - 1,
                       config |-> alertConfigs[i],
                       triggered |-> Includes(triggeredAlerts,
                                              AlertKey(alertConfigs[i])) ] ] ]

(* Mutant: the rate limit is 6 s, a digit short. *)
RateLimited_6s(c) ==
    now - (IF c.marketId \in DOMAIN lastChecked THEN lastChecked[c.marketId] ELSE 0) < 6000

(* Mutant: a market polled exactly 60 s ago still counts as rate-limited. *)
RateLimited_Inclusive(c) ==
    now - (IF c.marketId \in DOMAIN lastChecked THEN lastChecked[c.marketId] ELSE 0) <= 60000

(* Mutant: the poll clock is kept per alert key. *)
RateKey_PerAlert(c) == AlertKey(c)

(* The key of the poll clock: state.lastChecked[config.marketId] *)
RateKey(c) == c.marketId

(* Mutant: the stamp the pass itself has written does not count. *)
RateLimited_Earlier(c) ==
    /\ now - LastCheckedOf(RateKey(c)) < RATE_LIMIT_MS
    /\ LastCheckedOf(RateKey(c)) < now

(* now - lastChecked < 60000 *)
RateLimited(c) == now - LastCheckedOf(RateKey(c)) < RATE_LIMIT_MS

(* Mutant: the triggered test is missing. *)
AlreadyTriggered_Off(c) == FALSE

(* Mutant: the triggered test comes after the rate limit has let the condition through. *)
AlreadyTriggered_RateFirst(c) == Includes(triggeredAlerts, AlertKey(c)) /\ RateLimited(c)

(* state.triggeredAlerts.includes(alertKey) *)
AlreadyTriggered(c) == Includes(triggeredAlerts, AlertKey(c))

(* Mutant: the timestamp is not recorded when the fetch is issued. *)
Stamp_Forgot(c) == lastChecked

(* Mutant: the pass time is written for every market that has a stamp. *)
Stamp_Every(c) == [m \in DOMAIN lastChecked \cup {RateKey(c)} |-> now]

(* state.lastChecked[config.marketId] = now *)
Stamp(c) == Put(lastChecked, RateKey(c), now)

(* Mutant: a skip or failure leaves the loop instead of continuing it. *)
Continue_Return == Len(alertConfigs) + 1

(* continue: the iterator moves to the next element *)
Continue == idx + 1

(* executeWorkflow up to its loop: alerts = [], now = Date.now().  The      *)
(* environment of the pass is chosen here: any, or favourable throughout.   *)
StartPass ==
    /\ pc = "idle"
    /\ alerts' = <<>>
    /\ now' = DateNow
    /\ idx' = 1
    /\ pc' = "loop"
    /\ \E sc \in {"any", "good"} : script' = sc
    /\ eligible' = { i \in 1..Len(alertConfigs) :
                        /\ ~ AlreadyTriggered(alertConfigs[i])
                        /\ DateNow - LastCheckedOf(alertConfigs[i].marketId) > RATE_LIMIT_MS }
    /\ within60' = (now # 0 /\ ~ edited /\ DateNow - now < RATE_LIMIT_MS)
    /\ prevRateSkips' = (within60' /\ rateSkips)
    /\ rateSkips' = FALSE
    /\ edited' = FALSE
    /\ apart60' = (now = 0 \/ DateNow - now >= RATE_LIMIT_MS)
    /\ due' = {}
    /\ unfired0' = { i \in 1..Len(alertConfigs) : ~ AlreadyTriggered(alertConfigs[i]) }
    /\ visited' = <<>>
    /\ removed' = <<>>
    /\ fetched' = <<>>
    /\ UNCHANGED << alertConfigs, lastChecked, triggeredAlerts, clock, config,
                    pending, observed, posts, delivered, lastFailed,
                    lastFetchAt, polledIn, revived, pass2vars, parsevars, runvars, webhook, apivars >>

(* The iterator has an element to hand out *)
AtElement == pc = "loop" /\ idx <= Len(alertConfigs)
Element == alertConfigs[idx]

(* if (state.triggeredAlerts.includes(alertKey)) continue *)
SkipTriggered ==
    /\ AtElement
    /\ AlreadyTriggered(Element)
    /\ config' = Element
    /\ idx' = Continue
    /\ observed' = NoFetch
    /\ visited' = Append(visited, Element)
    /\ UNCHANGED << alertConfigs, lastChecked, triggeredAlerts, clock, pc, now,
                    alerts, pending, script, eligible, posts, delivered,
                    lastFailed, lastFetchAt, polledIn, edited, rateSkips,
                    within60, prevRateSkips,
                    apart60, revived, due, pass2vars, parsevars, runvars, removed, fetched, webhook, apivars, unfired0 >>

(* if (now - lastChecked < 60000) continue *)
SkipRateLimited ==
    /\ AtElement
    /\ ~ AlreadyTriggered(Element)
    /\ RateLimited(Element)
    /\ config' = Element
    /\ idx' = Continue
    /\ observed' = NoFetch
    /\ rateSkips' = TRUE
    /\ visited' = Append(visited, Element)
    /\ UNCHANGED << alertConfigs, lastChecked, triggeredAlerts, clock, pc, now,
                    alerts, pending, script, eligible, posts, delivered,
                    lastFailed, lastFetchAt, polledIn, edited, within60,
                    prevRateSkips,
                    apart60, revived, due, pass2vars, parsevars, runvars, removed, fetched, webhook, apivars, unfired0 >>

(* state.lastChecked[config.marketId] = now, and fetchMarketData is called *)
Poll ==
    /\ AtElement
    /\ ~ AlreadyTriggered(Element)
    /\ ~ RateLimited(Element)
    /\ config' = Element
    /\ lastChecked' = Stamp(Element)
    /\ pc' = "fetch"
    /\ observed' = NoFetch
    /\ lastFetchAt' = Put(lastFetchAt, Element.marketId, DateNow)
    /\ polledIn' = Put(polledIn, Element.marketId, now)
    /\ visited' = Append(visited, Element)
    /\ fetched' = Append(fetched, Element.marketId)
    /\ UNCHANGED << alertConfigs, triggeredAlerts, clock, now, idx, alerts,
                    pending, script, eligible, posts, delivered, lastFailed,
                    edited, rateSkips, within60, prevRateSkips,
                    apart60, revived, due, pass2vars, parsevars, runvars, removed, webhook, apivars, unfired0 >>

(* Mutant: a closed market is still evaluated. *)
Unusable_IgnoresClosed(market) ==
    \/ market = Null
    \/ ~ market.active

(* if (!market || !market.active || market.closed) *)
Unusable(market) ==
    \/ market = Null
    \/ ~ market.active
    \/ market.closed

(* What a response is, whatever the workflow makes of it *)
FetchKind(resp) ==
    IF resp.kind # "json" THEN "failed"
    ELSE IF resp.body = Null THEN "absent"
    ELSE IF ~ resp.body.active THEN "inactive"
    ELSE IF resp.body.closed THEN "closed"
    ELSE "usable"

(* A favourable answer for market m: active, open, and every condition on  *)
(* m in the list finds its outcome at a price that meets its threshold.    *)
GoodResponse(resp, m) ==
    /\ FetchKind(resp) = "usable"
    /\ \A i \in 1..Len(alertConfigs) :
          alertConfigs[i].marketId = m =>
             LET token == FindToken(resp.body.tokens, alertConfigs[i].outcome)
             IN  /\ token # Null
                 /\ IF alertConfigs[i].direction = "above"
                    THEN token.price.num * 100 >= alertConfigs[i].threshold * token.price.den
                    ELSE token.price.num * 100 <= alertConfigs[i].threshold * token.price.den

(* The fetch returns: the loop body from the await of fetchMarketData up to *)
(* the await of sendAlert, or to the end of the iteration.                  *)
FetchReturn(resp) ==
    /\ pc = "fetch"
    /\ script = "good" => GoodResponse(resp, config.marketId)
    /\ LET market == FetchMarketData(resp)
       IN  IF Unusable(market)
           THEN /\ pc' = "loop"
                /\ idx' = Continue
                /\ observed' = [kind |-> FetchKind(resp), price |-> NoPrice]
                /\ UNCHANGED << pending, webhook >>
           ELSE LET token == FindToken(market.tokens, config.outcome)
                IN  /\ observed' = [kind |-> FetchKind(resp),
                                    price |-> IF token = Null THEN NoPrice ELSE token.price]
                    /\ IF CheckAlertCondition(market, config)
                       THEN /\ pc' = "notify"
                            /\ pending' = [question |-> market.question,
                                           currentPrice |-> token.price]
                            /\ webhook' = SendAlertRequest(config, market, token.price)
                            /\ idx' = idx
                       ELSE /\ pc' = "loop"
                            /\ idx' = Continue
                            /\ UNCHANGED << pending, webhook >>
    /\ lastFailed' = IF lastFailed = ConditionKey(config) THEN <<>> ELSE lastFailed
    /\ due' = IF Unusable(FetchMarketData(resp)) THEN due
              ELSE due \cup { i \in 1..Len(alertConfigs) :
                                /\ alertConfigs[i].marketId = config.marketId
                                /\ CheckAlertCondition(FetchMarketData(resp),
                                                       alertConfigs[i]) }
    /\ UNCHANGED << alertConfigs, lastChecked, triggeredAlerts, clock, now,
                    config, alerts, script, eligible, posts, delivered,
                    lastFetchAt, polledIn, edited, rateSkips, within60,
                    prevRateSkips, apart60, revived, pass2vars, parsevars, runvars, passhist, apivars, unfired0 >>

(* Mutant: a condition is taken out of the list when it fires. *)
AfterSent_Removes(c) ==
    SelectSeq(alertConfigs, LAMBDA x : ConditionKey(x) # ConditionKey(c))

(* state.alertConfigs after if (sent) { ... }: the block writes            *)
(* triggeredAlerts and alerts, and nothing else.                           *)
AfterSent(c) == alertConfigs

(* The webhook POST returns: if (sent) { push the key; push the description } *)
NotifyReturn(resp) ==
    /\ pc = "notify"
    /\ script = "good" => resp = "ok"
    /\ IF SendAlert(resp)
       THEN /\ triggeredAlerts' = Append(triggeredAlerts, AlertKey(config))
            /\ alerts' = Append(alerts, Description(pending.question, config,
                                                    pending.currentPrice))
            /\ alertConfigs' = AfterSent(config)
       ELSE UNCHANGED << triggeredAlerts, alerts, alertConfigs >>
    /\ delivered' = IF resp = "ok"
                    THEN Put(delivered, ConditionKey(config),
                             IF ConditionKey(config) \in DOMAIN delivered
                             THEN delivered[ConditionKey(config)] + 1 ELSE 1)
                    ELSE delivered
    /\ lastFailed' = IF resp = "ok" THEN lastFailed ELSE ConditionKey(config)
    /\ pc' = "loop"
    /\ idx' = Continue
    /\ pending' = NoPending
    /\ webhook' = NoRequest
    /\ observed' = NoFetch
    /\ due' = IF resp = "ok" THEN due
              ELSE { i \in due : ConditionKey(alertConfigs[i]) # ConditionKey(config) }
    /\ UNCHANGED << lastChecked, clock, now, config, script,
                    eligible, posts, lastFetchAt, polledIn, edited, rateSkips,
                    within60, prevRateSkips, apart60, revived, pass2vars, parsevars, runvars, passhist, apivars, unfired0 >>

(* The iterator is past the end: return { state, alerts } *)
EndPass ==
    /\ pc = "loop"
    /\ idx > Len(alertConfigs)
    /\ pc' = "idle"
    /\ config' = NoConfig
    /\ observed' = NoFetch
    /\ script' = "any"
    /\ eligible' = {}
    /\ within60' = FALSE
    /\ prevRateSkips' = FALSE
    /\ apart60' = FALSE
    /\ due' = {}
    /\ unfired0' = {}
    /\ visited' = <<>>
    /\ removed' = <<>>
    /\ fetched' = <<>>
    /\ UNCHANGED << alertConfigs, lastChecked, triggeredAlerts, clock, now, idx,
                    alerts, pending, posts, delivered, lastFailed, lastFetchAt,
                    polledIn, edited, rateSkips, revived, pass2vars, parsevars, runvars, webhook, apivars >>

Next ==
    \/ Tick
    \/ \E c \in AlertConfig : AddAlert(c)
    \/ \E id \in 0..(MaxPosts - 1) : DeleteAlert(id)
    \/ StartPass
    \/ SkipTriggered
    \/ SkipRateLimited
    \/ Poll
    \/ \E resp \in FetchResponses : FetchReturn(resp)
    \/ \E resp \in NotifyResponses : NotifyReturn(resp)
    \/ EndPass

Spec == Init /\ [][Next]_vars

(* What the code itself guarantees to happen: between two awaits the loop  *)
(* runs on without interruption.  That a fetch or a webhook POST ever       *)
(* returns is up to the network: neither call is given a timeout or an     *)
(* abort signal (api.ts:803, 843-858), so no fairness is stated for them.  *)
LoopStep == SkipTriggered \/ SkipRateLimited \/ Poll \/ EndPass
SpecFair == Spec /\ WF_vars(LoopStep)

(* The engine with DELETE /alerts/:id as a request: its parameter is a    *)
(* string of the path and its answer is kept                              *)
NextDelete ==
    \/ \E c \in AlertConfig : AddAlert(c)
    \/ \E param \in Params : DeleteAlerts(param)
    \/ StartPass
    \/ SkipTriggered
    \/ SkipRateLimited
    \/ Poll
    \/ \E resp \in FetchResponses : FetchReturn(resp)
    \/ \E resp \in NotifyResponses : NotifyReturn(resp)
    \/ EndPass

SpecDelete == Init /\ [][NextDelete]_vars

(* DELETE /alerts/:id answered while executeWorkflow is suspended at the   *)
(* await of its fetch or of its POST, on the state object the pass is      *)
(* iterating.  The handler has no await, so it runs whole; the for..of     *)
(* iterator of the pass keeps its index into the spliced array.  The       *)
(* positions recorded when the pass began (eligible, unfired0, due) no     *)
(* longer name the same conditions and are dropped.                        *)
DeleteWhileSuspended(id) ==
    /\ pc \in {"fetch", "notify"}
    /\ ~ (id < 0 \/ id >= Len(alertConfigs))
    /\ alertConfigs' = Splice(alertConfigs, id)
    /\ removed' = Append(removed, alertConfigs[id + 1])
    /\ edited' = TRUE
    /\ eligible' = {}
    /\ unfired0' = {}
    /\ due' = {}
    /\ issued' = Splice(issued, id)
    /\ UNCHANGED << lastChecked, triggeredAlerts, clock, pc, now, idx, config,
                    alerts, pending, script, observed, posts,
                    delivered, lastFailed, lastFetchAt, polledIn, rateSkips,
                    within60, prevRateSkips, apart60, revived,
                    webhook, visited, fetched, pass2vars, parsevars, runvars, payvars >>

NextSuspended ==
    \/ Next
    \/ \E id \in 0..(MaxPosts - 1) : DeleteWhileSuspended(id)

SpecSuspended == Init /\ [][NextSuspended]_vars

(* The engine on conditions whose marketId or outcome holds a '-': POST    *)
(* /alerts takes both strings from the request body as they come           *)
Hyphenated ==
    { [marketId |-> m, outcome |-> o, threshold |-> 50, direction |-> "below",
       notifyUrl |-> "https://hook"] :
          m \in {"m1", "m1-x"}, o \in {"No", "x-No"} }

NextHyphenated ==
    \/ Tick
    \/ \E c \in Hyphenated : AddAlert(c)
    \/ StartPass
    \/ SkipTriggered
    \/ SkipRateLimited
    \/ Poll
    \/ \E resp \in FetchResponses : FetchReturn(resp)
    \/ \E resp \in NotifyResponses : NotifyReturn(resp)
    \/ EndPass

SpecHyphenated == Init /\ [][NextHyphenated]_vars

----------------------------------------------------------------------------
(* A second call of executeWorkflow on the same state object, made while   *)
(* the first is suspended at an await: the cron trigger fires again before *)
(* the running pass has returned.  It runs the same code with its own      *)
(* locals (now2, idx2, config2, pending2, alerts2).  JavaScript runs each  *)
(* call to its next await without interruption, so a call takes a step     *)
(* only while the other one is suspended or idle.                          *)

RateLimited2(c) == now2 - LastCheckedOf(c.marketId) < RATE_LIMIT_MS
AtElement2 == pc2 = "loop" /\ idx2 <= Len(alertConfigs)
Element2 == alertConfigs[idx2]
pass1only == << alertConfigs, clock, pc, now, idx, config, alerts, pending,
               script, observed, eligible, posts, lastFailed, edited,
               rateSkips, within60, prevRateSkips, apart60, unfired0, due,
               revived, apivars, parsevars, runvars, passhist, webhook >>

StartPass2 ==
    /\ pc \in {"fetch", "notify"}
    /\ pc2 = "idle"
    /\ alerts2' = <<>>
    /\ now2' = DateNow
    /\ idx2' = 1
    /\ pc2' = "loop"
    /\ UNCHANGED << pass1only, lastChecked, triggeredAlerts, delivered,
                    lastFetchAt, polledIn, config2, pending2 >>

SkipTriggered2 ==
    /\ pc # "loop"
    /\ AtElement2
    /\ AlreadyTriggered(Element2)
    /\ config2' = Element2
    /\ idx2' = idx2 + 1
    /\ UNCHANGED << pass1only, lastChecked, triggeredAlerts, delivered,
                    lastFetchAt, polledIn, pc2, now2, pending2, alerts2 >>

SkipRateLimited2 ==
    /\ pc # "loop"
    /\ AtElement2
    /\ ~ AlreadyTriggered(Element2)
    /\ RateLimited2(Element2)
    /\ config2' = Element2
    /\ idx2' = idx2 + 1
    /\ UNCHANGED << pass1only, lastChecked, triggeredAlerts, delivered,
                    lastFetchAt, polledIn, pc2, now2, pending2, alerts2 >>

Poll2 ==
    /\ pc # "loop"
    /\ AtElement2
    /\ ~ AlreadyTriggered(Element2)
    /\ ~ RateLimited2(Element2)
    /\ config2' = Element2
    /\ lastChecked' = Put(lastChecked, Element2.marketId, now2)
    /\ pc2' = "fetch"
    /\ lastFetchAt' = Put(lastFetchAt, Element2.marketId, DateNow)
    /\ polledIn' = Put(polledIn, Element2.marketId, now2)
    /\ UNCHANGED << pass1only, triggeredAlerts, delivered, now2, idx2,
                    pending2, alerts2 >>

FetchReturn2(resp) ==
    /\ pc # "loop"
    /\ pc2 = "fetch"
    /\ LET market == FetchMarketData(resp)
       IN  IF ~ Unusable(market) /\ CheckAlertCondition(market, config2)
           THEN /\ pc2' = "notify"
                /\ pending2' = [question |-> market.question,
                                currentPrice |->
                                    FindToken(market.tokens, config2.outcome).price]
                /\ idx2' = idx2
           ELSE /\ pc2' = "loop"
                /\ idx2' = idx2 + 1
                /\ UNCHANGED pending2
    /\ UNCHANGED << pass1only, lastChecked, triggeredAlerts, delivered,
                    lastFetchAt, polledIn, now2, config2, alerts2 >>

NotifyReturn2(resp) ==
    /\ pc # "loop"
    /\ pc2 = "notify"
    /\ IF SendAlert(resp)
       THEN /\ triggeredAlerts' = Append(triggeredAlerts, AlertKey(config2))
            /\ alerts2' = Append(alerts2, Description(pending2.question, config2,
                                                      pending2.currentPrice))
       ELSE UNCHANGED << triggeredAlerts, alerts2 >>
    /\ delivered' = IF resp = "ok"
                    THEN Put(delivered, ConditionKey(config2),
                             IF ConditionKey(config2) \in DOMAIN delivered
                             THEN delivered[ConditionKey(config2)] + 1 ELSE 1)
                    ELSE delivered
    /\ pc2' = "loop"
    /\ idx2' = idx2 + 1
    /\ pending2' = NoPending
    /\ UNCHANGED << pass1only, lastChecked, lastFetchAt, polledIn, now2, config2 >>

EndPass2 ==
    /\ pc # "loop"
    /\ pc2 = "loop"
    /\ idx2 > Len(alertConfigs)
    /\ pc2' = "idle"
    /\ config2' = NoConfig
    /\ UNCHANGED << pass1only, lastChecked, triggeredAlerts, delivered,
                    lastFetchAt, polledIn, now2, idx2, pending2, alerts2 >>

(* A step of the first call, or of a handler, while the second call is     *)
(* suspended or idle                                                       *)
Pass1Step == pc2 # "loop" /\ Next

NextOverlap ==
    \/ Pass1Step
    \/ StartPass2
    \/ SkipTriggered2
    \/ SkipRateLimited2
    \/ Poll2
    \/ \E resp \in FetchResponses : FetchReturn2(resp)
    \/ \E resp \in NotifyResponses : NotifyReturn2(resp)
    \/ EndPass2

SpecOverlap == Init /\ [][NextOverlap]_vars

----------------------------------------------------------------------------
(* x402 payment gate: constants, proofs, receipts, verifyPayment           *)

PAYMENT_RECEIVER == "0x8Da63b5f30e603E2D11a924C3976F67E63035cF0"
USDC_ADDRESS_BASE == "0x833589fCD6eDb6E08f4c7C32D4f71b54bdA02913"
ALERT_PRICE_USDC == 10000
BASE_CHAIN_ID == 8453
EXPIRY_S == 3600
MS_PER_S == 1000

(* Addresses of the parties; Payer is written with mixed case as wallets   *)
(* print it, Stranger is somebody else                                     *)
Payer == "0xAb5801a7D398351b8bE11C439e05C5B3259aeC9B"
Stranger == "0x1111111111111111111111111111111111111111"
OtherToken == "0x4200000000000000000000000000000000000006"

(* X402PaymentProof as the client puts it in X-Payment-Proof *)
Proof(tx, chain, who) ==
    [ transactionHash |-> tx, blockNumber |-> 100, chainId |-> chain,
      payer |-> who, amount |-> "10000" ]

Proofs ==
    { Proof("0xt1", BASE_CHAIN_ID, ToLowerCase(Payer)),
      Proof("0xt2", BASE_CHAIN_ID, ToLowerCase(Payer)),
      Proof("0xt1", 1, ToLowerCase(Payer)) }

(* The X-Payment-Proof header: absent, or a text that JSON.parse rejects,  *)
(* or the JSON text of null, or the JSON text of a proof                   *)
NoHeader == [kind |-> "absent"]
Malformed == [kind |-> "garbage"]
JsonNull == [kind |-> "null"]
Headers == { NoHeader, Malformed, JsonNull } \cup { [kind |-> "proof", proof |-> p] : p \in Proofs }

(* A log of a receipt: the emitting contract and, when the log decodes as  *)
(* Transfer(from, to, value), its arguments; a log that parseLog rejects   *)
(* or does not know is Opaque                                              *)
Transfer(token, from, to, value) ==
    [ address |-> token, decodes |-> TRUE, from |-> from, to |-> to, value |-> value ]
Opaque(token) ==
    [ address |-> token, decodes |-> FALSE, from |-> "", to |-> "", value |-> 0 ]

Paid == Transfer(ToLowerCase(USDC_ADDRESS_BASE), ToLowerCase(Payer), ToLowerCase(PAYMENT_RECEIVER), ALERT_PRICE_USDC)
PaidMixedCase == Transfer(USDC_ADDRESS_BASE, Payer, PAYMENT_RECEIVER, ALERT_PRICE_USDC + 1)
Underpaid == Transfer(USDC_ADDRESS_BASE, Payer, PAYMENT_RECEIVER, ALERT_PRICE_USDC - 1)
PaidByStranger == Transfer(USDC_ADDRESS_BASE, Stranger, PAYMENT_RECEIVER, ALERT_PRICE_USDC)
PaidInOtherToken == Transfer(OtherToken, Payer, PAYMENT_RECEIVER, ALERT_PRICE_USDC)
PaidElsewhere == Transfer(USDC_ADDRESS_BASE, Payer, Stranger, ALERT_PRICE_USDC)

LogLists ==
    { <<>>, << Paid >>, << PaidMixedCase >>, << Underpaid >>, << PaidByStranger >>,
      << PaidInOtherToken >>, << PaidElsewhere >>, << Opaque(USDC_ADDRESS_BASE) >>,
      << Underpaid, Paid >>, << PaidByStranger, Paid >>,
      << Opaque(USDC_ADDRESS_BASE), Paid >> }

Receipts ==
    { [status |-> 1, blockNumber |-> 100, logs |-> l] : l \in LogLists }
        \cup { [status |-> 0, blockNumber |-> 100, logs |-> << Paid >>],
               [status |-> 1, blockNumber |-> 101, logs |-> << Paid >>] }

(* What provider.getTransactionReceipt answers: it throws, it finds no     *)
(* transaction, or it returns a receipt                                    *)
RpcThrows == [kind |-> "throws"]
RpcNull == [kind |-> "null"]
RpcResponses == { RpcThrows, RpcNull } \cup { [kind |-> "receipt", receipt |-> r] : r \in Receipts }

Valid == [valid |-> TRUE, error |-> ""]
Invalid(e) == [valid |-> FALSE, error |-> e]

(* The loop over receipt.logs: logs of other contracts and logs that do    *)
(* not decode are passed over; the first transfer of USDC to the receiver  *)
(* of at least the price ends the loop, and its sender decides             *)
Pays(log) ==
    /\ ToLowerCase(log.address) = ToLowerCase(USDC_ADDRESS_BASE)
    /\ log.decodes
    /\ ToLowerCase(log.to) = ToLowerCase(PAYMENT_RECEIVER)
    /\ log.value >= ALERT_PRICE_USDC

ScanLogs(logs, proof) ==
    LET paying == { i \in 1..Len(logs) : Pays(logs[i]) }
        first == CHOOSE i \in paying : \A j \in paying : i <= j
    IN  IF paying = {} THEN Invalid("Payment not found in transaction")
        ELSE IF ToLowerCase(logs[first].from) # ToLowerCase(proof.payer)
             THEN Invalid("Payer address mismatch")
        ELSE Valid

(* verifyPayment(proof), rpc being what the Base RPC answers *)
VerifyPayment(proof, rpc) ==
    IF proof.chainId # BASE_CHAIN_ID THEN Invalid("Invalid chain ID - must be Base")
    ELSE IF rpc.kind = "throws" THEN Invalid("Verification failed")
    ELSE IF rpc.kind = "null" THEN Invalid("Transaction not found")
    ELSE IF rpc.receipt.status # 1 THEN Invalid("Transaction failed")
    ELSE IF rpc.receipt.blockNumber # proof.blockNumber THEN Invalid("Block number mismatch")
    ELSE ScanLogs(rpc.receipt.logs, proof)

(* Whether the handler reaches getTransactionReceipt for this header *)
RpcAsked(hdr) == hdr.kind = "proof" /\ hdr.proof.chainId = BASE_CHAIN_ID
(* The answers the handler is run against *)
Receipt(logs) == [kind |-> "receipt",
                  receipt |-> [status |-> 1, blockNumber |-> 100, logs |-> logs]]
RpcSample ==
    { RpcThrows, Receipt(<< PaidByStranger >>), Receipt(<< Underpaid >>),
      Receipt(<< Underpaid, PaidMixedCase >>) }
RpcFor(hdr) == IF RpcAsked(hdr) THEN RpcSample ELSE { RpcNull }

Reply(status, error) == [status |-> status, error |-> error]

(* Mutant: the handler does not look at what verifyPayment returned. *)
PaymentReply_IgnoresVerdict(hdr, rpc) ==
    IF hdr.kind \in {"garbage", "null"} THEN Reply(400, "Invalid payment proof format")
    ELSE NoReply

(* The payment step of POST /alerts: NoReply when the handler goes on to   *)
(* create the alert, otherwise the reply it returns                        *)
PaymentReply(hdr, rpc) ==
    IF hdr.kind \in {"garbage", "null"} THEN Reply(400, "Invalid payment proof format")
    ELSE IF ~VerifyPayment(hdr.proof, rpc).valid
         THEN Reply(402, "Payment invalid: " \o VerifyPayment(hdr.proof, rpc).error)
    ELSE NoReply

----------------------------------------------------------------------------
(* Natural-language requests. A text is the sequence of its tokens: words, *)
(* numerals and the signs "%", "<", ">", "?", ",", "&", "|", separated by  *)
(* single blanks. A "%" may as well stand right after its numeral: every   *)
(* pattern that reads one allows \s* before it.                            *)

Numerals == {"40", "50", "60", "150", "0.60"}
Signs == {"%", "<", ">", "?", ",", "&", "|"}
Decimals == {"0.60", ".60"}

(* parseFloat on the numerals in use: a whole number is an integer, 0.6 *)
(* the fraction 3/5                                                     *)
ParseFloat(t) ==
    CASE t = "40" -> 40
      [] t = "50" -> 50
      [] t = "60" -> 60
      [] t = "150" -> 150
      [] t = "0.60" -> [num |-> 3, den |-> 5]

(* \d+(?:\.\d+)? from the start of a token, and \w+ on a whole token *)
IsNumber(t) == t \in Numerals
IsWord(t) == t \notin Signs \cup Decimals

Lower(text) == [i \in DOMAIN text |-> ToLowerCase(text[i])]

(* << s, t >>: the string s occurs inside the token t, for the tokens and  *)
(* the keywords in use; Heads are those where t begins with s              *)
Heads == { << "exceed", "exceeds" >>, << "hit", "hits" >>, << "pass", "passes" >>,
           << "no", "not" >>, << "to", "today" >> }
Within == Heads \cup { << "no", "know" >>, << "over", "government" >> }
Contains(t, s) == t = s \/ << s, t >> \in Within
StartsWith(t, s) == t = s \/ << s, t >> \in Heads

(* String.prototype.includes of a keyword of one or two words *)
TextIncludes(lower, kw) ==
    IF Len(kw) = 1
    THEN \E i \in 1..Len(lower) : Contains(lower[i], kw[1])
    ELSE \E i \in 1..(Len(lower) - 1) :
            lower[i] = kw[1] /\ StartsWith(lower[i + 1], kw[2])

ABOVE_KEYWORDS ==
    << << "exceed" >>, << "exceeds" >>, << "above" >>, << "over" >>,
       << "greater", "than" >>, << "more", "than" >>, << "reaches" >>, << "hits" >>,
       << "gets", "to" >>, << "goes", "above" >>, << "rises", "to" >>,
       << "climbs", "to" >>, << "surpasses" >>, << "passes" >>, << "breaks" >>,
       << "tops" >>, << ">" >> >>

BELOW_KEYWORDS ==
    << << "fall", "below" >>, << "below" >>, << "under" >>, << "less", "than" >>,
       << "drops", "to" >>, << "drops", "below" >>, << "falls", "to" >>,
       << "falls", "under" >>, << "dips", "to" >>, << "dips", "below" >>,
       << "sinks", "to" >>, << "declines", "to" >>, << "<" >> >>

NO_KEYWORDS ==
    << << "no" >>, << "false" >>, << "won't" >>, << "fail" >>, << "reject" >>,
       << "lose" >>, << "doesn't" >> >>

NullDirection == "null"

(* detectDirection: the below keywords are tried first *)
DetectDirection(text) ==
    IF \E k \in 1..Len(BELOW_KEYWORDS) : TextIncludes(Lower(text), BELOW_KEYWORDS[k])
    THEN "below"
    ELSE IF \E k \in 1..Len(ABOVE_KEYWORDS) : TextIncludes(Lower(text), ABOVE_KEYWORDS[k])
    THEN "above"
    ELSE NullDirection

(* detectOutcome: the word "no", or a keyword of NO_KEYWORDS anywhere *)
DetectOutcome(text) ==
    IF \E i \in 1..Len(text) : ToLowerCase(text[i]) = "no" THEN "No"
    ELSE IF \E k \in 1..Len(NO_KEYWORDS) : TextIncludes(Lower(text), NO_KEYWORDS[k])
    THEN "No"
    ELSE "Yes"

(* What the five patterns of extractPercentage capture in one token, ""   *)
(* if they cannot match there: (\d+(?:\.\d+)?) up to the end of the token  *)
(* for the first three, the digits after "0." and after "." for the last  *)
(* two                                                                    *)
NumberAtEnd(t) == IF IsNumber(t) THEN t ELSE IF t = ".60" THEN "60" ELSE ""
AfterZeroPoint(t) == IF t = "0.60" THEN "60" ELSE ""
AfterPoint(t) == IF t \in {"0.60", ".60"} THEN "60" ELSE ""

(* text.match(pattern): the leftmost match, as the position of its token, *)
(* or 0                                                                   *)
FirstBefore(text, units) ==
    LET hits == { i \in 1..(Len(text) - 1) :
                    NumberAtEnd(text[i]) # "" /\ ToLowerCase(text[i + 1]) \in units }
    IN  IF hits = {} THEN 0 ELSE CHOOSE i \in hits : \A j \in hits : i <= j

FirstDecimal(text, Digits(_)) ==
    LET hits == { i \in 1..Len(text) : Digits(text[i]) # "" }
    IN  IF hits = {} THEN 0 ELSE CHOOSE i \in hits : \A j \in hits : i <= j

(* extractPercentage: the first pattern that matches decides; parseFloat   *)
(* of what it captured, times 100 when pattern.source.includes('0\\.'),    *)
(* which is the fourth pattern alone                                       *)
ExtractPercentage(text) ==
    IF FirstBefore(text, {"%"}) # 0
        THEN << ParseFloat(NumberAtEnd(text[FirstBefore(text, {"%"})])) >>
    ELSE IF FirstBefore(text, {"percent", "percentage"}) # 0
        THEN << ParseFloat(NumberAtEnd(text[FirstBefore(text, {"percent", "percentage"})])) >>
    ELSE IF FirstBefore(text, {"cent", "cents"}) # 0
        THEN << ParseFloat(NumberAtEnd(text[FirstBefore(text, {"cent", "cents"})])) >>
    ELSE IF FirstDecimal(text, AfterZeroPoint) # 0
        THEN << ParseFloat(AfterZeroPoint(text[FirstDecimal(text, AfterZeroPoint)])) * PERCENT >>
    ELSE IF FirstDecimal(text, AfterPoint) # 0
        THEN << ParseFloat(AfterPoint(text[FirstDecimal(text, AfterPoint)])) >>
    ELSE <<>>

Min(S) == CHOOSE x \in S : \A y \in S : x <= y
Max(S) == CHOOSE x \in S : \A y \in S : x >= y
Slice(text, a, b) == [i \in 1..(b - a + 1) |-> text[a + i - 1]]

Extracted(t, d, o) == << [threshold |-> t, direction |-> d, outcome |-> o] >>

WhenWords == {"when", "if", "once"}
OddsWords == {"odd", "odds", "probability", "chance", "likelihood"}

(* Pattern 1: when X odds [to] WORDS N. A match is << s, o, a, n >>, the   *)
(* positions of the when-word, the odds-word, the first of WORDS and the   *)
(* numeral                                                                 *)
Matches1(L) ==
    { m \in { i \in 1..Len(L) : L[i] \in WhenWords }
               \X { i \in 1..Len(L) : L[i] \in OddsWords }
               \X (1..Len(L))
               \X { i \in 1..Len(L) : IsNumber(L[i]) } :
        /\ m[2] >= m[1] + 2
        /\ \/ m[3] = m[2] + 1
           \/ m[3] = m[2] + 2 /\ L[m[2] + 1] = "to"
        /\ m[4] > m[3]
        /\ \A i \in m[3]..(m[4] - 1) : IsWord(L[i]) }

(* The match the engine returns: leftmost start, X as short as can be,     *)
(* "to" taken when it can be, WORDS as long as can be                      *)
Prefer1(m, x) ==
    \/ m[1] < x[1]
    \/ m[1] = x[1] /\ m[2] < x[2]
    \/ m[1] = x[1] /\ m[2] = x[2] /\ m[3] > x[3]
    \/ m[1] = x[1] /\ m[2] = x[2] /\ m[3] = x[3] /\ m[4] >= x[4]

Extract1(text, m) ==
    Extracted(ParseFloat(text[m[4]]),
              DetectDirection(Slice(text, m[3], m[4] - 1)),
              DetectOutcome(Slice(text, m[1] + 1, m[2] - 1)))

Pattern1(text) ==
    IF Matches1(Lower(text)) = {} THEN <<>>
    ELSE Extract1(text, CHOOSE m \in Matches1(Lower(text)) :
                            \A x \in Matches1(Lower(text)) : Prefer1(m, x))

(* The verbs of pattern 2 at position v: how many tokens they take, or 0 *)
VerbAt(L, v) ==
    IF L[v] \in {"exceed", "exceeds"} THEN 1
    ELSE IF v + 1 > Len(L) THEN 0
    ELSE IF L[v] \in {"goe", "goes"} /\ L[v + 1] \in {"above", "below"} THEN 2
    ELSE IF L[v] \in {"rise", "rises"} /\ L[v + 1] = "to" THEN 2
    ELSE IF L[v] \in {"drop", "drops", "fall", "falls"} /\ L[v + 1] \in {"to", "below"} THEN 2
    ELSE 0

(* Pattern 2: when X VERB N. A match is << s, v, n >>, the positions of    *)
(* the when-word, the verb and the numeral                                 *)
Matches2(L) ==
    { m \in { i \in 1..Len(L) : L[i] \in WhenWords } \X (1..Len(L))
               \X { i \in 1..Len(L) : IsNumber(L[i]) } :
        /\ m[2] >= m[1] + 2
        /\ VerbAt(L, m[2]) > 0
        /\ m[3] = m[2] + VerbAt(L, m[2]) }

Prefer2(m, x) == m[1] < x[1] \/ (m[1] = x[1] /\ m[2] <= x[2])

Extract2(text, m) ==
    Extracted(ParseFloat(text[m[3]]),
              DetectDirection(Slice(text, m[2], m[3] - 1)),
              DetectOutcome(Slice(text, m[1] + 1, m[2] - 1)))

Pattern2(text) ==
    IF Matches2(Lower(text)) = {} THEN <<>>
    ELSE Extract2(text, CHOOSE m \in Matches2(Lower(text)) :
                            \A x \in Matches2(Lower(text)) : Prefer2(m, x))

(* Patterns 3 and 4: X SIGN N and X VERB N from the start of the text; a   *)
(* match is the position of the sign or verb, the first one is returned    *)
Matches3(text) ==
    { j \in 2..(Len(text) - 1) : text[j] \in {"<", ">"} /\ IsNumber(text[j + 1]) }

Extract3(text, j) ==
    Extracted(ParseFloat(text[j + 1]),
              IF text[j] = ">" THEN "above" ELSE "below",
              DetectOutcome(Slice(text, 1, j - 1)))

Pattern3(text) ==
    IF Matches3(text) = {} THEN <<>> ELSE Extract3(text, Min(Matches3(text)))

Matches4(L) ==
    { j \in 2..(Len(L) - 1) :
        L[j] \in {"hit", "hits", "reache", "reaches", "at", "to"} /\ IsNumber(L[j + 1]) }

Extract4(text, j) ==
    Extracted(ParseFloat(text[j + 1]), "above", DetectOutcome(Slice(text, 1, j - 1)))

Pattern4(text) ==
    IF Matches4(Lower(text)) = {} THEN <<>>
    ELSE Extract4(text, Min(Matches4(Lower(text))))

Patterns(text) == << Pattern1(text), Pattern2(text), Pattern3(text), Pattern4(text) >>

Parsed(e, notifyUrl) ==
    [ marketId |-> "", outcome |-> e.outcome, threshold |-> e.threshold,
      direction |-> e.direction, notifyUrl |-> notifyUrl ]

(* Mutant: a pattern that matched is taken, direction or not. *)
Usable_AnyMatch(ps) == { k \in 1..Len(ps) : ps[k] # <<>> }

(* The loop over the patterns: the first that matches and yields a         *)
(* direction                                                               *)
Usable(ps) == { k \in 1..Len(ps) : ps[k] # <<>> /\ ps[k][1].direction # NullDirection }
TryPatterns(ps, notifyUrl) ==
    IF Usable(ps) = {} THEN Null ELSE Parsed(ps[Min(Usable(ps))][1], notifyUrl)

(* The fallback: whatever percentage and direction the text holds *)
Fallback(percentage, direction, outcome, notifyUrl) ==
    IF percentage # <<>> /\ direction # NullDirection
    THEN Parsed(Extracted(percentage[1], direction, outcome)[1], notifyUrl)
    ELSE Null

(* parseAlertRequest *)
OrElse(first, second) == IF first # Null THEN first ELSE second
ParseAlertRequest(request, notifyUrl) ==
    OrElse(TryPatterns(Patterns(request), notifyUrl),
           Fallback(ExtractPercentage(request), DetectDirection(request),
                    DetectOutcome(request), notifyUrl))

(* request.split(/\s+(?:and|or|,|&|\|)\s+/i): a delimiter splits when it  *)
(* has a token before it and one after it and the token before it is not  *)
(* itself a delimiter that splits, the blank between the two being used up *)
Delimiters == {"and", "or", ",", "&", "|"}
RunStart(L, i) ==
    Min({ j \in 2..i : \A k \in j..i : L[k] \in Delimiters })
SplitsAt(L) ==
    { i \in 2..(Len(L) - 1) : L[i] \in Delimiters /\ (i - RunStart(L, i)) % 2 = 0 }
Nth(S, k) == CHOOSE x \in S : Cardinality({ y \in S : y < x }) = k - 1
(* Mutant: the delimiters are matched without the i flag. *)
Cuts_CaseSensitive(text) == {0} \cup SplitsAt(text) \cup {Len(text) + 1}

Cuts(text) == {0} \cup SplitsAt(Lower(text)) \cup {Len(text) + 1}
Split(text) ==
    [k \in 1..(Cardinality(Cuts(text)) - 1) |->
        Slice(text, Nth(Cuts(text), k) + 1, Nth(Cuts(text), k + 1) - 1)]

(* Mutant: the whole request is parsed as one condition. *)
ParseMultiConditionAlert_Whole(request, notifyUrl) ==
    SelectSeq(<< ParseAlertRequest(request, notifyUrl) >>, LAMBDA r : r # Null)

(* parseMultiConditionAlert: the parts that parse, in their order *)
ParseMultiConditionAlert(request, notifyUrl) ==
    SelectSeq([k \in DOMAIN Split(request) |->
                  ParseAlertRequest(Split(request)[k], notifyUrl)],
              LAMBDA r : r # Null)

----------------------------------------------------------------------------
(* POST /alerts *)

MaxPending == 1

Hook == "https://hook"
Undefined == "undefined"

(* Request texts *)
TrumpOver60 == << "when", "Trump", "exceeds", "60", "%" >>
TrumpOver150 == << "when", "Trump", "exceeds", "150", "%" >>
WeatherToday == << "the", "weather", "today" >>

(* A JSON number or string, by its text *)
Num(text) == [type |-> "number", text |-> text]
Str(text) == [type |-> "string", text |-> text]

(* Request bodies: a JSON object is a record of the fields it has *)
Bodies ==
    { [marketId |-> "m1", threshold |-> Num("60"), notifyUrl |-> Hook],
      [marketId |-> "m2", outcome |-> "No", threshold |-> Str("50"),
       direction |-> "below", notifyUrl |-> Hook],
      [marketId |-> "m1", threshold |-> Num("150"), notifyUrl |-> Hook],
      [marketId |-> "m1", threshold |-> Num("60"), direction |-> "sideways",
       notifyUrl |-> Hook],
      [marketId |-> "m1", threshold |-> Num("0"), notifyUrl |-> Hook],
      [marketId |-> "m1", threshold |-> Num("60")],
      [notifyUrl |-> Hook],
      [naturalLanguage |-> TrumpOver60, notifyUrl |-> Hook],
      [naturalLanguage |-> TrumpOver150, notifyUrl |-> Hook],
      [naturalLanguage |-> WeatherToday, notifyUrl |-> Hook],
      [naturalLanguage |-> TrumpOver60, marketId |-> "m2", threshold |-> Num("60"),
       notifyUrl |-> Hook] }

Has(body, f) == f \in DOMAIN body
(* !x on a field: absent, the number zero, the empty string or text *)
Falsy(body, f) ==
    \/ ~Has(body, f)
    \/ f = "threshold" /\ body[f] \in { Num("0"), Str("") }
    \/ f = "naturalLanguage" /\ body[f] = <<>>
    \/ f \notin {"threshold", "naturalLanguage"} /\ body[f] = ""
(* const { outcome = 'Yes', direction = 'above', ... } = body *)
Field(body, f, default) == IF Has(body, f) THEN body[f] ELSE default

(* A market of the Gamma listing *)
Gamma(id, question, description) ==
    [conditionId |-> id, question |-> question, description |-> description]
TrumpMarket ==
    Gamma("m1", << "Will", "Trump", "win", "?" >>,
          << "Resolves", "when", "Trump", "exceeds", "60", "%", "of", "votes" >>)
TrumpLandslide ==
    Gamma("m2", << "when", "Trump", "exceeds", "150", "%" >>, << "A", "joke" >>)

(* What GET gamma-api /markets answers *)
GammaResponses ==
    { [kind |-> "throw"], [kind |-> "status"] }
    \cup { [kind |-> "json", body |-> l] :
             l \in { <<>>, << TrumpLandslide, TrumpMarket >> } }

(* String.prototype.includes on texts: needle occurs in hay, token by token *)
IncludesText(hay, needle) ==
    \E i \in 0..(Len(hay) - Len(needle)) :
        \A j \in 1..Len(needle) : hay[i + j] = needle[j]

(* searchMarkets: the listed markets whose question or description holds   *)
(* the whole query, compared in lower case; none on any failure            *)
SearchMarkets(query, resp) ==
    IF resp.kind # "json" THEN <<>>
    ELSE SelectSeq(resp.body,
                   LAMBDA m : \/ IncludesText(Lower(m.question), Lower(query))
                              \/ IncludesText(Lower(m.description), Lower(query)))

(* What the CLOB answers when the handler asks for the market *)
ClobResponses ==
    { [kind |-> "throw"], [kind |-> "status"],
      [kind |-> "json", body |-> [question |-> "Will it happen?", active |-> TRUE,
                                  closed |-> FALSE, tokens |-> <<>>]] }

(* Which of the two services the handler asks, given the body *)
NaturalPath(body) == ~Falsy(body, "naturalLanguage") /\ Falsy(body, "marketId")
Created(c) == [reply |-> Reply(201, ""), push |-> << c >>]
Refused(status, error) == [reply |-> Reply(status, error), push |-> <<>>]

(* The natural-language path, after the parser and the search *)
Natural(parsed, markets, notifyUrl) ==
    IF parsed = Null
        THEN Refused(400, "Could not parse natural language request")
    ELSE IF Len(markets) = 0
        THEN Refused(404, "No matching markets found")
    ELSE Created([ marketId |-> markets[1].conditionId,
                   outcome |-> parsed.outcome,
                   threshold |-> parsed.threshold,
                   direction |-> parsed.direction,
                   notifyUrl |-> notifyUrl ])

(* The alert the structured path builds *)
AlertOf(body) ==
    [ marketId |-> body.marketId,
      outcome |-> Field(body, "outcome", "Yes"),
      threshold |-> ParseFloat(body.threshold.text),
      direction |-> Field(body, "direction", "above"),
      notifyUrl |-> body.notifyUrl ]

(* Mutant: the alert is pushed before the market is looked up. *)
Structured_PushesFirst(body, clob) ==
    IF Falsy(body, "marketId") \/ Falsy(body, "threshold") \/ Falsy(body, "notifyUrl")
        THEN Refused(400, "Missing required fields: marketId, threshold, notifyUrl")
    ELSE IF FetchMarketData(clob) = Null
        THEN [reply |-> Reply(404, "Market not found"), push |-> << AlertOf(body) >>]
    ELSE Created(AlertOf(body))

(* The structured path *)
Structured(body, clob) ==
    IF Falsy(body, "marketId") \/ Falsy(body, "threshold") \/ Falsy(body, "notifyUrl")
        THEN Refused(400, "Missing required fields: marketId, threshold, notifyUrl")
    ELSE IF FetchMarketData(clob) = Null
        THEN Refused(404, "Market not found")
    ELSE Created(AlertOf(body))

(* The handler after the payment step: its reply and what it pushes *)
CreateAlert(body, gamma, clob) ==
    IF NaturalPath(body)
    THEN Natural(ParseAlertRequest(body.naturalLanguage, Field(body, "notifyUrl", "")),
                 SearchMarkets(body.naturalLanguage, gamma),
                 Field(body, "notifyUrl", Undefined))
    ELSE Structured(body, clob)

(* The body of a request without proof is only stored, and that of a      *)
(* request whose proof is refused is not read: two bodies and one stand    *)
(* for all. The services a request does not reach are not varied.          *)
BodiesFor(hdr, rpc) ==
    IF hdr.kind = "absent"
    THEN { [marketId |-> "m1", threshold |-> Num("60"), notifyUrl |-> Hook],
           [naturalLanguage |-> TrumpOver60, notifyUrl |-> Hook] }
    ELSE IF PaymentReply(hdr, rpc) # NoReply
    THEN { [marketId |-> "m1", threshold |-> Num("60"), notifyUrl |-> Hook] }
    ELSE Bodies
GammaFor(hdr, rpc, body) ==
    IF hdr.kind # "absent" /\ PaymentReply(hdr, rpc) = NoReply
       /\ NaturalPath(body) /\ ParseAlertRequest(body.naturalLanguage, "") # Null
    THEN GammaResponses ELSE { [kind |-> "throw"] }
ClobFor(hdr, rpc, body) ==
    IF hdr.kind # "absent" /\ PaymentReply(hdr, rpc) = NoReply /\ ~NaturalPath(body)
       /\ ~(Falsy(body, "marketId") \/ Falsy(body, "threshold") \/ Falsy(body, "notifyUrl"))
    THEN ClobResponses ELSE { [kind |-> "throw"] }

(* createPaymentRequired and the bookkeeping of pending payments: the new  *)
(* entry under a fresh nonce, then the expired entries dropped             *)
NowSeconds == DateNow \div MS_PER_S
FreshNonce == Min((1..(MaxPending + 1)) \ { p.nonce : p \in pendingPayments })
PaymentRequired(body) ==
    { p \in pendingPayments \cup
              { [nonce |-> FreshNonce, config |-> body, expiry |-> NowSeconds + EXPIRY_S] } :
        ~(p.expiry < NowSeconds) }

(* What verification made of the header, for the history *)
Verdict(hdr, rpc) ==
    IF hdr.kind = "absent" THEN "none"
    ELSE IF hdr.kind \in {"garbage", "null"} THEN "malformed"
    ELSE IF VerifyPayment(hdr.proof, rpc).valid THEN "valid"
    ELSE "invalid"

(* state.alertConfigs.push(alert), for an alert paid with transaction tx *)
Admit(alert, tx) ==
    /\ posts < MaxPosts
    /\ alertConfigs' = Append(alertConfigs, alert)
    /\ posts' = posts + 1
    /\ edited' = TRUE
    /\ rateSkips' = FALSE
    /\ revived' = ( \/ revived
                    \/ /\ Includes(triggeredAlerts, AlertKey(alert))
                       /\ \A i \in 1..Len(alertConfigs) :
                              ConditionKey(alertConfigs[i]) # ConditionKey(alert) )
    /\ paidFor' = Put(paidFor, tx, IF tx \in DOMAIN paidFor THEN paidFor[tx] + 1 ELSE 1)
    /\ issued' = Append(issued, Len(alertConfigs))

(* The end of the handler once the payment is accepted *)
Conclude(made, tx) ==
    /\ reply' = made.reply
    /\ UNCHANGED pendingPayments
    /\ IF made.push = <<>>
       THEN UNCHANGED << alertConfigs, posts, edited, rateSkips, revived, paidFor, issued >>
       ELSE Admit(made.push[1], tx)

(* POST /alerts, the whole handler *)
PostAlerts(hdr, body, rpc, gamma, clob) ==
    /\ pc = "idle"
    /\ payment' = Verdict(hdr, rpc)
    /\ IF hdr.kind = "absent"
       THEN /\ Cardinality(pendingPayments) < MaxPending
            /\ pendingPayments' = PaymentRequired(body)
            /\ reply' = Reply(402, "")
            /\ UNCHANGED << alertConfigs, posts, edited, rateSkips, revived, paidFor, issued >>
       ELSE IF PaymentReply(hdr, rpc) # NoReply
       THEN /\ reply' = PaymentReply(hdr, rpc)
            /\ UNCHANGED << alertConfigs, posts, edited, rateSkips, revived, paidFor,
                            pendingPayments, issued >>
       ELSE Conclude(CreateAlert(body, gamma, clob), hdr.proof.transactionHash)
    /\ UNCHANGED << lastChecked, triggeredAlerts, clock, pc, now, idx, config,
                    alerts, pending, script, observed, eligible, delivered,
                    lastFailed, lastFetchAt, polledIn, within60, prevRateSkips,
                    apart60, due, pass2vars, parsevars, runvars, passhist, webhook, idParam,
                    verified, unfired0 >>

NextApi ==
    \E hdr \in Headers :
        \E rpc \in RpcFor(hdr) :
          \E body \in BodiesFor(hdr, rpc) :
            \E gamma \in GammaFor(hdr, rpc, body), clob \in ClobFor(hdr, rpc, body) :
                PostAlerts(hdr, body, rpc, gamma, clob)

SpecApi == Init /\ [][NextApi]_vars

----------------------------------------------------------------------------
(* The parser called on its own: parseAlertRequest and                     *)
(* parseMultiConditionAlert are pure functions of the request text         *)

Texts ==
    {
      << "Trump", "hits", "60", "%" >>,
      << "Trump", "hits", "60", "percent" >>,
      << "Trump", "hits", "60", "cents" >>,
      << "Trump", "hits", "0.60" >>,
      << "Trump", "above", "60", "%" >>,
      << "Trump", "above", "60", "percent" >>,
      << "Trump", "above", "60", "cents" >>,
      << "Trump", "above", "0.60" >>,
      << "Trump", "above", ".60" >>,
      << "Trump", "falls", "to", "more", "than", "60", "%" >>,
      << "when", "Trump", "odds", "go", "under", "over", "60", "%" >>,
      << "Trump", "under", "pressure", "hits", "60", "%" >>,
      << "Trump", "below", ">", "60", "%" >>,
      << "the", "weather", "today" >>,
      << "Trump", "above" >>,
      << "Trump", "60", "%" >>,
      << "Trump", "at", "60", "%" >>,
      << "Biden", "drops", "to", "50", "%" >>,
      << "when", "Trump", "odds", "exceed", "60", "%" >>,
      << "when", "Trump", "exceeds", "60", "%" >>,
      << "when", "Trump", "exceeds", "150", "%" >>,
      << "when", "Trump", "drop", "to", "50", "%" >>,
      << "when", "Trump", "odds", "are", "60", "%" >>,
      << "when", "Trump", "odds", "are", "60", ">", "50" >>,
      << "when", "Trump", "exceeds", "60", "%", "<", "50" >>,
      << "Trump", ">", "60", "%", "hits", "50" >>,
      << "Trump", ">", "60", "%", "AND", "Biden", "<", "40", "%" >>,
      << "Alert", "when", "Trump", ">", "60", "%", "AND", "Biden", "<", "40", "%" >>,
      << "Trump", ">", "60", "%", "and", "the", "weather", "today" >>,
      << "the", "weather", "today", "or", "Trump", ">", "60", "%" >>,
      << "Trump", ">", "60", "%", ",", "Biden", "<", "40", "%" >>,
      << "Trump", ">", "60", "%", "&", "Biden", "<", "40", "%" >>,
      << "Trump", ">", "60", "%", "|", "Biden", "<", "40", "%" >>,
      << "Trump", ">", "60", "%", "or", "Biden", "<", "40", "%", "and", "Trump", "hits", "50", "%" >>,
      << "Trump", ">", "60", "%", "and", "or", "Biden", "<", "40", "%" >>,
      << "No", "hits", "40", "%" >>,
      << "Trump", "no", ">", "60", "%" >>,
      << "Trump", ">", "60", "%", "no" >>,
      << "I", "know", "Trump", ">", "60", "%" >>,
      << "Trump", "will", "lose", ">", "60", "%" >>,
      << "Trump", "above", "60", "%", "no" >>,
      << "Trump", ">", "60", "%" >>,
      << "when", "Trump", "drop", "to", "50", "%", ">", "60" >> }

(* The state of the engine, which the parser neither reads nor writes *)
enginevars == << alertConfigs, lastChecked, triggeredAlerts, clock, pc, now, idx,
                 config, alerts, pending, script, observed, eligible, posts,
                 delivered, lastFailed, lastFetchAt, polledIn, edited, rateSkips,
                 within60, prevRateSkips, apart60, unfired0, due, revived, webhook,
                 passhist >>

(* A caller has a text to parse *)
Ask(text) ==
    /\ input = <<>>
    /\ input' = text
    /\ UNCHANGED << one, many, asked, enginevars, pass2vars, apivars, runvars >>

(* parseAlertRequest(input, notifyUrl) *)
ParseOne ==
    /\ input # <<>>
    /\ "one" \notin asked
    /\ one' = ParseAlertRequest(input, Hook)
    /\ asked' = asked \cup {"one"}
    /\ UNCHANGED << input, many, enginevars, pass2vars, apivars, runvars >>

(* parseMultiConditionAlert(input, notifyUrl) *)
ParseMany ==
    /\ input # <<>>
    /\ "many" \notin asked
    /\ many' = ParseMultiConditionAlert(input, Hook)
    /\ asked' = asked \cup {"many"}
    /\ UNCHANGED << input, one, enginevars, pass2vars, apivars, runvars >>

NextParse ==
    \/ \E text \in Texts : Ask(text)
    \/ ParseOne
    \/ ParseMany

SpecParse == Init /\ [][NextParse]_vars

----------------------------------------------------------------------------
(* executeWorkflow run on its own, from start to return, on a state and    *)
(* against a data source and a notifier that answer as scripted: a market  *)
(* has one answer for every fetch, the webhook one for every POST          *)

PolledAgoMs == 45000

(* The iteration's state: state.lastChecked, state.triggeredAlerts and the *)
(* local alerts                                                            *)
WithPoll(acc, c, t) == [acc EXCEPT !.lastChecked = Put(acc.lastChecked, c.marketId, t)]
WithAlert(acc, c, market) ==
    [acc EXCEPT !.triggeredAlerts = Append(acc.triggeredAlerts, AlertKey(c)),
                !.alerts = Append(acc.alerts,
                                  Description(market.question, c,
                                              FindToken(market.tokens, c.outcome).price))]

(* Mutant: once a call has returned, the module remembers that it polled   *)
(* and later calls poll nothing.                                           *)
Iteration_Remembers(acc, c, t, source, notifier) ==
    IF outcomes # <<>> THEN acc
    ELSE IF Includes(acc.triggeredAlerts, AlertKey(c)) THEN acc
    ELSE WithPoll(acc, c, t)

(* The body of for (const config of state.alertConfigs), t being the       *)
(* Date.now() the call read before the loop                                *)
Iteration(acc, c, t, source, notifier) ==
    IF Includes(acc.triggeredAlerts, AlertKey(c)) THEN acc
    ELSE IF t - (IF c.marketId \in DOMAIN acc.lastChecked
                 THEN acc.lastChecked[c.marketId] ELSE 0) < RATE_LIMIT_MS THEN acc
    ELSE IF Unusable(FetchMarketData(source[c.marketId])) THEN WithPoll(acc, c, t)
    ELSE IF /\ CheckAlertCondition(FetchMarketData(source[c.marketId]), c)
            /\ SendAlert(notifier)
         THEN WithAlert(WithPoll(acc, c, t), c, FetchMarketData(source[c.marketId]))
    ELSE WithPoll(acc, c, t)

RECURSIVE Loop(_, _, _, _, _, _)
Loop(acc, list, k, t, source, notifier) ==
    IF k > Len(list) THEN acc
    ELSE Loop(Iteration(acc, list[k], t, source, notifier), list, k + 1, t,
              source, notifier)

(* executeWorkflow(state): { state, alerts } *)
Returned(state, acc) ==
    [state |-> [state EXCEPT !.lastChecked = acc.lastChecked,
                             !.triggeredAlerts = acc.triggeredAlerts],
     alerts |-> acc.alerts]
ExecuteWorkflow(state, t, source, notifier) ==
    Returned(state,
             Loop([lastChecked |-> state.lastChecked,
                   triggeredAlerts |-> state.triggeredAlerts, alerts |-> <<>>],
                  state.alertConfigs, 1, t, source, notifier))

(* The states, sources and clock readings of the runs *)
TrumpYes == [marketId |-> "m1", outcome |-> "Yes", threshold |-> 60,
             direction |-> "above", notifyUrl |-> "https://hook"]
OtherNo == [marketId |-> "m2", outcome |-> "No", threshold |-> 50,
            direction |-> "below", notifyUrl |-> "https://hook"]
TrialStates ==
    { [alertConfigs |-> list, lastChecked |-> polled, triggeredAlerts |-> <<>>] :
        list \in { << TrumpYes >>, << TrumpYes, OtherNo >> },
        polled \in { <<>>, [m \in {"m1"} |-> StartMs - PolledAgoMs] } }
Yes65 == [kind |-> "json",
          body |-> [question |-> "Will it happen?", active |-> TRUE, closed |-> FALSE,
                    tokens |-> << [outcome |-> "yes", price |-> [num |-> 65, den |-> 100]],
                                  [outcome |-> "No", price |-> [num |-> 50, den |-> 100]] >>]]
Sources == [Markets -> { [kind |-> "throw"], Yes65 }]
ClockReadings == { StartMs + k * TickMs : k \in 0..MaxTicks }
Runs == {1, 2}

(* A state and the scripts are set for the two runs *)
Arrange(state, source, notifier) ==
    /\ trial = NoTrial
    /\ trial' = [state |-> state, source |-> source, notifier |-> notifier]
    /\ UNCHANGED << outcomes, enginevars, pass2vars, apivars, parsevars >>

(* One of the runs is made, Date.now() being t *)
Run(r, t) ==
    /\ trial # NoTrial
    /\ r \notin DOMAIN outcomes
    /\ outcomes' = Put(outcomes, r,
                       [now |-> t,
                        returned |-> ExecuteWorkflow(trial.state, t, trial.source,
                                                     trial.notifier)])
    /\ UNCHANGED << trial, enginevars, pass2vars, apivars, parsevars >>

NextRuns ==
    \/ \E state \in TrialStates, source \in Sources, notifier \in NotifyResponses :
          Arrange(state, source, notifier)
    \/ \E r \in Runs, t \in ClockReadings : Run(r, t)

SpecRuns == Init /\ [][NextRuns]_vars

----------------------------------------------------------------------------
(* verifyPayment called on its own, on a proof and against a Base RPC that *)
(* answers as given                                                        *)

(* Proofs that differ in chain, block number and payer, and receipts with  *)
(* more than one transfer to the receiver                                  *)
ProofsToVerify ==
    Proofs \cup { Proof("0xt1", BASE_CHAIN_ID, Payer),
                  Proof("0xt1", BASE_CHAIN_ID, Stranger),
                  Proof("0xt1", 1, Stranger),
                  [Proof("0xt1", BASE_CHAIN_ID, Payer) EXCEPT !.blockNumber = 101] }
AnswersToVerify ==
    RpcResponses \cup { Receipt(<< Paid, PaidByStranger >>),
                        Receipt(<< PaidInOtherToken, PaidElsewhere >>) }

Verify(proof, rpc) ==
    /\ verified' = [proof |-> proof, rpc |-> rpc, returned |-> VerifyPayment(proof, rpc)]
    /\ UNCHANGED << enginevars, pass2vars, pendingPayments, reply, paidFor, payment,
                    idParam, issued, parsevars, runvars >>

NextVerify == \E proof \in ProofsToVerify, rpc \in AnswersToVerify : Verify(proof, rpc)

SpecVerify == Init /\ [][NextVerify]_vars

----------------------------------------------------------------------------
(* Steps of a pass, as the properties below name them *)

FetchReturns == pc = "fetch" /\ pc' # "fetch"
NotifyReturns == pc = "notify" /\ pc' # "notify"
NotifySucceeds == NotifyReturns /\ delivered' # delivered
NotifyFails == NotifyReturns /\ delivered' = delivered
FetchFails == FetchReturns /\ observed'.kind \in {"failed", "absent", "inactive", "closed"}
LabelMissing == FetchReturns /\ observed'.kind = "usable" /\ observed'.price = NoPrice
IssuesFetch == pc = "loop" /\ pc' = "fetch"
SkipsElement ==
    /\ pc' = "loop"
    /\ idx' = idx + 1
    /\ UNCHANGED << alertConfigs, lastChecked, triggeredAlerts, alerts,
                    delivered, lastFetchAt, polledIn >>
PassOver == pc = "loop" /\ idx > Len(alertConfigs)
Fired(c) == Includes(triggeredAlerts, AlertKey(c))
PolledWithin60(m) ==
    \/ now - LastCheckedOf(m) < RATE_LIMIT_MS
    \/ m \in DOMAIN polledIn /\ now - polledIn[m] < RATE_LIMIT_MS

----------------------------------------------------------------------------
(* C1: over any sequence of non-overlapping passes, every ConditionKey     *)
(* (marketId, outcome, threshold, direction) has at most one notification  *)
(* answered OK, also when several conditions of the list carry that key.   *)
C1_AtMostOnePerKey == \A k \in DOMAIN delivered : delivered[k] <= 1

(* Two conditions with one key, the key notified, and a later pass that    *)
(* began 60 s or more after the market's last poll has gone over both.     *)
C1_Witness ==
    /\ pc = "idle"
    /\ Len(alertConfigs) = 2
    /\ ConditionKey(alertConfigs[1]) = ConditionKey(alertConfigs[2])
    /\ ConditionKey(alertConfigs[1]) \in DOMAIN delivered
    /\ now - polledIn[alertConfigs[1].marketId] >= RATE_LIMIT_MS

(* C2: a condition whose key is in triggeredAlerts is skipped whatever the *)
(* poll clock says: no fetch, no notify, lastChecked left as it is.        *)
C2_FiredIsSkipped ==
    [][ (AtElement /\ Includes(triggeredAlerts, AlertKey(Element))) => SkipsElement ]_vars

(* A fired condition has just been skipped in a pass in which its market   *)
(* was due for a poll.                                                     *)
C2_Witness ==
    /\ pc = "loop"
    /\ config \in AlertConfig
    /\ Fired(config)
    /\ now - LastCheckedOf(config.marketId) >= RATE_LIMIT_MS

(* C3, as claimed: a pass that begins less than 60 s after the previous    *)
(* pass began, with no condition added or removed since, issues no fetch   *)
(* and no notify, returns an empty list and leaves triggeredAlerts alone.  *)
C3_SecondPassIdle ==
    [][ (within60 /\ pc # "idle")
          => /\ pc' \notin {"fetch", "notify"}
             /\ triggeredAlerts' = triggeredAlerts
             /\ alerts' = <<>> ]_vars

(* C3, amended: the same, when moreover the previous pass skipped no       *)
(* condition on the rate limit.                                            *)
C3_SecondPassIdleAfterFullPoll ==
    [][ (within60 /\ ~ prevRateSkips /\ pc # "idle")
          => /\ pc' \notin {"fetch", "notify"}
             /\ triggeredAlerts' = triggeredAlerts
             /\ alerts' = <<>> ]_vars

(* Such a second pass is over, and the rate limit has held back an unfired *)
(* condition in it.                                                        *)
C3_Witness ==
    /\ PassOver
    /\ within60
    /\ ~ prevRateSkips
    /\ rateSkips
    /\ alerts = <<>>

(* C4: a condition whose market was last polled less than 60 s before the  *)
(* pass time is skipped with no fetch, no notify and no change to          *)
(* lastChecked or triggeredAlerts; the clock is the market's, whichever    *)
(* condition on that market caused the poll.                               *)
C4_RateLimitedIsSkipped ==
    [][ (AtElement /\ PolledWithin60(Element.marketId)) => SkipsElement ]_vars

(* The second of two conditions on one market, differing in outcome,       *)
(* threshold and direction, has been skipped on the first one's poll.      *)
C4_Witness ==
    /\ pc = "loop"
    /\ idx = 3
    /\ Len(alertConfigs) = 2
    /\ config = alertConfigs[2]
    /\ alertConfigs[1].marketId = alertConfigs[2].marketId
    /\ alertConfigs[1].outcome # alertConfigs[2].outcome
    /\ alertConfigs[1].threshold # alertConfigs[2].threshold
    /\ alertConfigs[1].direction # alertConfigs[2].direction
    /\ ~ Fired(alertConfigs[1])
    /\ ~ Fired(alertConfigs[2])
    /\ rateSkips
    /\ LastCheckedOf(config.marketId) = now

(* C5, as claimed: two fetches for one market are issued at least 60 s     *)
(* apart on the wall clock, however long a pass takes to reach the market. *)
C5_FetchesAMinuteApart ==
    [][ (IssuesFetch /\ config'.marketId \in DOMAIN lastFetchAt)
          => DateNow - lastFetchAt[config'.marketId] >= RATE_LIMIT_MS ]_vars

(* C6: while a fetch is in flight lastChecked of its market already holds  *)
(* the pass time; and when the fetch fails or the market is absent,        *)
(* inactive or closed, nothing else changes: triggeredAlerts and alerts    *)
(* stay as they are and the loop goes on without a notify.                 *)
C6_StampThenFetch ==
    [][ /\ pc' = "fetch" => /\ config'.marketId \in DOMAIN lastChecked'
                            /\ lastChecked'[config'.marketId] = now'
        /\ FetchFails => /\ pc' = "loop"
                         /\ UNCHANGED << lastChecked, triggeredAlerts, alerts, delivered >> ]_vars

(* A fetch has failed and its market carries the pass time.                *)
C6_Witness ==
    /\ pc = "loop"
    /\ observed.kind \in {"failed", "absent", "inactive", "closed"}
    /\ LastCheckedOf(config.marketId) = now
    /\ ~ Fired(config)

(* C7: the key enters triggeredAlerts and a description is appended        *)
(* exactly when the webhook answers OK; when it does not, both stay as     *)
(* they are, and the condition is fetched for again in a later pass that   *)
(* reaches it with its market not rate-limited.                            *)
C7_FiredIffNotified ==
    [][ /\ NotifySucceeds =>
              /\ triggeredAlerts' = Append(triggeredAlerts, AlertKey(config))
              /\ alerts' = Append(alerts, Description(pending.question, config,
                                                      pending.currentPrice))
        /\ NotifyFails =>
              /\ UNCHANGED << triggeredAlerts, alerts >>
              /\ ~ Includes(triggeredAlerts', AlertKey(config))
        /\ triggeredAlerts' # triggeredAlerts => NotifySucceeds
        /\ (alerts' # alerts /\ alerts' # <<>>) => NotifySucceeds
        /\ ( /\ AtElement
             /\ ConditionKey(Element) = lastFailed
             /\ now - LastCheckedOf(Element.marketId) >= RATE_LIMIT_MS )
              => (pc' = "fetch" /\ config' = Element) ]_vars

(* A condition whose notification failed is being fetched for again.       *)
C7_Witness ==
    /\ pc = "fetch"
    /\ ConditionKey(config) = lastFailed
    /\ ~ Fired(config)

(* C8, as claimed: in a pass in which the data source and the webhook      *)
(* answer favourably, every condition that was unfired and last polled     *)
(* more than 60 s before when the pass began is fired by the end of the    *)
(* pass, with a description in the result.                                 *)
C8_EveryEligibleFires ==
    (PassOver /\ script = "good") =>
        \A i \in eligible :
            /\ Fired(alertConfigs[i])
            /\ \E j \in 1..Len(alerts) : alerts[j].outcome = alertConfigs[i].outcome

C10_FailureIsIsolated ==
    [][ /\ (FetchFails \/ LabelMissing \/ NotifyFails) =>
              /\ pc' = "loop"
              /\ idx' = idx + 1
              /\ alertConfigs' = alertConfigs
        /\ ( /\ AtElement
             /\ ~ Includes(triggeredAlerts, AlertKey(Element))
             /\ now - LastCheckedOf(Element.marketId) >= RATE_LIMIT_MS )
              => (pc' = "fetch" /\ config' = Element) ]_vars

(* The first condition's notification failed in this pass and the second   *)
(* condition, on another market, has been fetched for and compared.        *)
C10_Witness ==
    /\ pc = "notify"
    /\ idx = 2
    /\ lastFailed = ConditionKey(alertConfigs[1])
    /\ LastCheckedOf(alertConfigs[1].marketId) = now
    /\ alertConfigs[1].marketId # alertConfigs[2].marketId
    /\ config = alertConfigs[2]

(* C11, as claimed: in a pass begun 60 s or more after the previous one,   *)
(* every condition whose own threshold is met by the data fetched for its  *)
(* market in the pass, and whose notification has not failed, is fired by  *)
(* the end of the pass, whatever another condition on the same market with *)
(* another threshold has done.                                             *)
C11_FiresIndependently ==
    (PassOver /\ apart60) => \A i \in due : Fired(alertConfigs[i])

(* When the pass began, the condition at position i was the only unfired  *)
(* one on its market.                                                      *)
Sole(i) ==
    \A j \in unfired0 :
        j # i => alertConfigs[j].marketId # alertConfigs[i].marketId

(* C12: in every pass begun 60 s or more after the previous one, an        *)
(* unfired condition that is the only unfired one on its market is fetched *)
(* for again, however often it has failed; when the data meets its         *)
(* threshold the notifier is called; its key enters triggeredAlerts when   *)
(* the notifier answers OK, and by no other step, so it stays pending for  *)
(* as long as the notifier fails.                                          *)
C12_RetriedUntilFired ==
    [][ /\ (AtElement /\ apart60 /\ ~ Fired(Element) /\ Sole(idx))
              => (pc' = "fetch" /\ config' = Element)
        /\ ( /\ FetchReturns
             /\ observed'.kind = "usable"
             /\ observed'.price # NoPrice
             /\ MeetsThreshold(observed'.price, config) ) => pc' = "notify"
        /\ NotifySucceeds => Includes(triggeredAlerts', AlertKey(config))
        /\ NotifyFails => ~ Includes(triggeredAlerts', AlertKey(config))
        /\ \A c \in AlertConfig :
              ( /\ ~ Includes(triggeredAlerts, AlertKey(c))
                /\ Includes(triggeredAlerts', AlertKey(c)) )
                  => (NotifySucceeds /\ ConditionKey(config) = ConditionKey(c)) ]_vars

(* A condition whose notification failed in an earlier pass, alone on its  *)
(* market, is being fetched for again in a pass begun 60 s or more later.  *)
C12_Witness ==
    /\ pc = "fetch"
    /\ apart60
    /\ lastFailed = ConditionKey(config)
    /\ idx <= Len(alertConfigs)
    /\ alertConfigs[idx] = config
    /\ Sole(idx)
    /\ now - polledIn[config.marketId] = 0
    /\ clock = MaxTicks

(* C13, as claimed: also when a second call overlaps the first, no         *)
(* notification is answered OK for a ConditionKey that already had one.    *)
C13_OverlapDeliversOnce ==
    [][ \A k \in DOMAIN delivered : delivered'[k] = delivered[k] ]_vars

(* C14, as claimed: every pass terminates; a data source or webhook that   *)
(* never responds cannot keep a pass from returning.                       *)
C14_PassTerminates == (pc # "idle") ~> (pc = "idle")

(* C15, as claimed: after a pass in which a condition fired, with no       *)
(* request since the pass began, no fired condition is in alertConfigs.    *)
C15_FiredLeavesList ==
    (pc = "idle" /\ alerts # <<>> /\ ~ edited)
        => \A i \in 1..Len(alertConfigs) : ~ Fired(alertConfigs[i])

(* C15, amended: firing takes nothing out of alertConfigs: the fired       *)
(* condition stays where it was and GET /alerts lists it as triggered; the *)
(* list gets shorter only by a DELETE request, between passes.             *)
C15_FiredStaysListed ==
    [][ /\ NotifySucceeds =>
              /\ alertConfigs' = alertConfigs
              /\ idx <= Len(alertConfigs')
              /\ alertConfigs'[idx] = config
              /\ ListAlerts'.alerts[idx].triggered
              /\ ListAlerts'.count = Len(alertConfigs)
        /\ Len(alertConfigs') < Len(alertConfigs) =>
              /\ pc = "idle" /\ pc' = "idle"
              /\ Len(alertConfigs') = Len(alertConfigs) - 1
              /\ triggeredAlerts' = triggeredAlerts ]_vars

(* A pass in which a condition fired is over and GET /alerts still lists   *)
(* the condition, as triggered.                                            *)
C15_Witness ==
    /\ pc = "idle"
    /\ alerts # <<>>
    /\ ~ edited
    /\ ListAlerts.count >= 1
    /\ \E i \in 1..ListAlerts.count :
          /\ ListAlerts.alerts[i].triggered
          /\ ConditionKey(ListAlerts.alerts[i].config) \in DOMAIN delivered
          /\ polledIn[ListAlerts.alerts[i].config.marketId] = now

(* C16: triggeredAlerts only grows, by appending, whatever the step (a     *)
(* pass, POST /alerts, DELETE /alerts/:id); and a condition whose key has  *)
(* once been notified OK is skipped when reached, also when it was deleted *)
(* and created again in between.                                           *)
C16_FiredOnlyGrows ==
    [][ /\ Len(triggeredAlerts') >= Len(triggeredAlerts)
        /\ SubSeq(triggeredAlerts', 1, Len(triggeredAlerts)) = triggeredAlerts
        /\ (AtElement /\ ConditionKey(Element) \in DOMAIN delivered)
              => (pc' = "loop" /\ idx' = idx + 1 /\ delivered' = delivered) ]_vars

(* An alert fired, was deleted and created again, and a later pass in      *)
(* which its market was due for a poll has skipped it.                     *)
C16_Witness ==
    /\ revived
    /\ posts = 2
    /\ Len(alertConfigs) = 1
    /\ PassOver
    /\ config = alertConfigs[1]
    /\ Fired(config)
    /\ delivered[ConditionKey(config)] = 1
    /\ now - LastCheckedOf(config.marketId) >= RATE_LIMIT_MS

----------------------------------------------------------------------------
(* C17: a condition enters alertConfigs only in a POST /alerts whose       *)
(* payment proof verifyPayment found valid, and that request is answered   *)
(* 201; a request with no proof, with a proof that does not parse, or with *)
(* a proof that fails verification leaves alertConfigs as it was.          *)
C17_AdmittedOnlyWhenPaid ==
    [][ /\ Len(alertConfigs') > Len(alertConfigs)
            => payment' = "valid" /\ reply'.status = 201
        /\ payment' \in {"none", "malformed", "invalid"}
            => alertConfigs' = alertConfigs /\ reply'.status \in {400, 402} ]_vars

(* One alert was admitted on a valid proof, and a later request whose      *)
(* proof failed verification was answered 402 and added nothing            *)
C17_Witness ==
    /\ Len(alertConfigs) = 1
    /\ posts = 1
    /\ DOMAIN paidFor # {}
    /\ payment = "invalid"
    /\ reply.status = 402

(* C18: one verified payment pays for at most one alert: no transaction    *)
(* hash has more than one alert created on its proof.                      *)
C18_OnePaymentOneAlert == \A t \in DOMAIN paidFor : paidFor[t] <= 1

(* C19: a POST /alerts that is refused after payment (text not parsed, no  *)
(* market matching, required fields missing, market not found) is answered *)
(* 400 or 404 and leaves alertConfigs as it was; a paid request that adds  *)
(* nothing is one of these refusals.                                       *)
CreationErrors ==
    { "Could not parse natural language request", "No matching markets found",
      "Missing required fields: marketId, threshold, notifyUrl", "Market not found" }

C19_RejectedLeavesUnchanged ==
    [][ /\ reply'.error \in CreationErrors
            => alertConfigs' = alertConfigs /\ reply'.status \in {400, 404}
        /\ payment' = "valid" /\ alertConfigs' = alertConfigs
            => reply'.error \in CreationErrors ]_vars

(* With one alert in the list, a paid request in natural language that     *)
(* parsed but matched no market was answered 404 and the list still holds  *)
(* the one alert                                                           *)
C19_Witness ==
    /\ Len(alertConfigs) = 1
    /\ posts = 1
    /\ payment = "valid"
    /\ reply = Reply(404, "No matching markets found")

(* C20: every condition in alertConfigs has a threshold within 0..100 and  *)
(* a direction that is "above" or "below".                                 *)
C20_WellFormed ==
    \A i \in 1..Len(alertConfigs) :
        /\ alertConfigs[i].threshold >= 0
        /\ alertConfigs[i].threshold <= PERCENT
        /\ alertConfigs[i].direction \in {"above", "below"}

----------------------------------------------------------------------------
(* Properties of the parser *)

Asked(f) == f \in asked

(* The text holds a keyword of the list *)
HasCue(text, keywords) ==
    \E k \in 1..Len(keywords) : TextIncludes(Lower(text), keywords[k])

(* Sixty on the 0-100 scale, in the four formats *)
Sixty == { << "60", "%" >>, << "60", "percent" >>, << "60", "cents" >>, << "0.60" >> }
SixtyTexts == { << "Trump", verb >> \o f : verb \in {"hits", "above"}, f \in Sixty }

(* C21: a request that writes its threshold as "60 %", "60 percent",       *)
(* "60 cents" or "0.60" parses to a condition whose threshold is 60, be it *)
(* through a pattern ("Trump hits ...") or the fallback ("Trump above ...") *)
C21_SixtyInEveryFormat ==
    (Asked("one") /\ input \in SixtyTexts)
        => (one # Null /\ ToString(one.threshold) = "60")

(* C22: when the text given to parseAlertRequest holds a keyword of        *)
(* BELOW_KEYWORDS and a keyword of ABOVE_KEYWORDS, the condition it        *)
(* returns has direction "below".                                          *)
C22_BelowWinsTie ==
    (Asked("one") /\ HasCue(input, BELOW_KEYWORDS) /\ HasCue(input, ABOVE_KEYWORDS)
       /\ one # Null)
        => one.direction = "below"

(* C23: a text that holds no numeral, or no keyword of ABOVE_KEYWORDS or   *)
(* BELOW_KEYWORDS, parses to null, and parseMultiConditionAlert returns    *)
(* the empty list for it: no pattern assumes a direction.                  *)
NoNumeral(text) == \A i \in 1..Len(text) : NumberAtEnd(text[i]) = ""
C23_NoneWithoutCue ==
    (NoNumeral(input) \/ DetectDirection(input) = NullDirection)
        => /\ Asked("one") => one = Null
           /\ Asked("many") => many = <<>>

(* C24: parseAlertRequest returns the result of the first pattern, in the  *)
(* order 1, 2, 3, 4, that matches and yields a direction, whatever the     *)
(* patterns after it and the fallback would give; a pattern that matches   *)
(* without a direction is passed over; the fallback decides only when no   *)
(* pattern does.                                                           *)
Yields(ps, k) == ps[k] # <<>> /\ ps[k][1].direction # NullDirection
Wins(ps, k) == Yields(ps, k) /\ \A j \in 1..(k - 1) : ~ Yields(ps, j)
C24_FirstPatternWins ==
    Asked("one") =>
        /\ \A k \in 1..4 :
              Wins(Patterns(input), k) => one = Parsed(Patterns(input)[k][1], Hook)
        /\ (\A k \in 1..4 : ~ Yields(Patterns(input), k))
              => one = Fallback(ExtractPercentage(input), DetectDirection(input),
                                DetectOutcome(input), Hook)

(* Pattern 2 matched "drop to 50" without a direction and was passed over, *)
(* pattern 3 gave above 60 and was returned, though pattern 4 gives above  *)
(* 50                                                                      *)
C24_Witness ==
    /\ Asked("one")
    /\ Patterns(input)[2] # <<>>
    /\ ~ Yields(Patterns(input), 2)
    /\ Wins(Patterns(input), 3)
    /\ Yields(Patterns(input), 4)
    /\ Patterns(input)[4] # Patterns(input)[3]
    /\ one.threshold = 60

(* C25: parseMultiConditionAlert returns the results of parseAlertRequest  *)
(* on the parts of the text that parse, in the order of the parts, and     *)
(* nothing for the parts that do not; for a text without a delimiter it    *)
(* returns the one result of parseAlertRequest on the text, if it parses.  *)
Parses(text, k) == ParseAlertRequest(Split(text)[k], Hook) # Null
NoDelimiter(text) == \A i \in 1..Len(text) : ToLowerCase(text[i]) \notin Delimiters
C25_ManyIsOnePerPart ==
    /\ Asked("many") =>
          /\ Len(many) = Cardinality({ k \in DOMAIN Split(input) : Parses(input, k) })
          /\ \A i \in 1..Len(many) :
                many[i] = ParseAlertRequest(
                   Split(input)[Nth({ k \in DOMAIN Split(input) : Parses(input, k) }, i)],
                   Hook)
    /\ (Asked("many") /\ Asked("one") /\ NoDelimiter(input))
          => many = IF one = Null THEN <<>> ELSE << one >>

(* A text of two parts, of which only the second parses: its result alone  *)
(* is returned                                                             *)
C25_Witness ==
    /\ Asked("many")
    /\ Len(Split(input)) = 2
    /\ ~ Parses(input, 1)
    /\ Parses(input, 2)
    /\ Len(many) = 1
    /\ many[1].threshold = 60

(* C26: "Trump > 60 % AND Biden < 40 %", with or without "Alert when"     *)
(* before it, gives two conditions: above 60, then below 40.               *)
TrumpAndBiden == << "Trump", ">", "60", "%", "AND", "Biden", "<", "40", "%" >>
C26_TrumpAndBiden ==
    (Asked("many") /\ input \in { TrumpAndBiden, << "Alert", "when" >> \o TrumpAndBiden })
        => /\ Len(many) = 2
           /\ many[1].direction = "above" /\ many[1].threshold = 60
           /\ many[2].direction = "below" /\ many[2].threshold = 40

C26_Witness ==
    /\ Asked("many")
    /\ input = << "Alert", "when" >> \o TrumpAndBiden
    /\ Len(many) = 2

(* C27: the outcome of a parsed condition is "No" when the request text    *)
(* holds the word "no" or a keyword of NO_KEYWORDS, and "Yes" when it      *)
(* holds neither.                                                          *)
C27_OutcomeOfText ==
    (Asked("one") /\ one # Null) => one.outcome = DetectOutcome(input)

----------------------------------------------------------------------------
(* Properties of the notification *)

----------------------------------------------------------------------------
(* Properties of DELETE /alerts/:id *)

(* The parameter writes a position of the list, counted from 0 *)
IsPosition(param, list) == \E i \in 0..(Len(list) - 1) : param = ToString(i)
PositionOf(param, list) == CHOOSE i \in 0..(Len(list) - 1) : param = ToString(i)

(* C30: DELETE /alerts/:id with an id that is not a number, or not one of  *)
(* 0..length-1, is answered 404 and leaves alertConfigs as it was; with an *)
(* id in 0..length-1 it removes the condition at that position, keeps the  *)
(* others in their order, and leaves lastChecked and triggeredAlerts as    *)
(* they were.                                                              *)
C30_RemoveCondition ==
    [][ \A param \in Params : DeleteAlerts(param) =>
          IF IsPosition(param, alertConfigs)
          THEN /\ Len(alertConfigs') = Len(alertConfigs) - 1
               /\ \A j \in 1..Len(alertConfigs') :
                     alertConfigs'[j] =
                        alertConfigs[IF j <= PositionOf(param, alertConfigs)
                                     THEN j ELSE j + 1]
               /\ lastChecked' = lastChecked
               /\ triggeredAlerts' = triggeredAlerts
          ELSE /\ reply'.status = 404
               /\ alertConfigs' = alertConfigs ]_vars

----------------------------------------------------------------------------
(* Properties of a pass as a function *)

BothRan == Runs \subseteq DOMAIN outcomes

C31_NotifiedOnlyWhenMet ==
    [][ /\ (pc' = "notify" /\ pc # "notify") =>
              /\ pc = "fetch"
              /\ config' = config
              /\ lastChecked[config.marketId] = now
              /\ observed'.kind = "usable"
              /\ observed'.price # NoPrice
              /\ IF config.direction = "above"
                 THEN observed'.price.num * 100 >= config.threshold * observed'.price.den
                 ELSE observed'.price.num * 100 <= config.threshold * observed'.price.den
              /\ webhook'.url = config.notifyUrl
              /\ webhook'.body.outcome = config.outcome
        /\ LabelMissing =>
              /\ pc' = "loop"
              /\ idx' = idx + 1
              /\ webhook' = NoRequest
              /\ UNCHANGED << triggeredAlerts, alerts, delivered, alertConfigs >> ]_vars

(* The POST is in flight for a Yes condition whose market spells the       *)
(* outcome "yes", out of a fetch made in this pass.                        *)
C31_Witness ==
    /\ pc = "notify"
    /\ config.outcome = "Yes"
    /\ observed.kind = "usable"
    /\ LastCheckedOf(config.marketId) = now
    /\ webhook # NoRequest

(* How often x occurs in a list *)
Count(list, x) == Cardinality({ i \in 1..Len(list) : list[i] = x })

(* C32: when a DELETE has removed a condition while the pass was suspended *)
(* at a fetch or a POST, the pass has, by its end, taken every condition   *)
(* still in the list as its config (none is skipped), and has taken no     *)
(* condition more often than the list held it (none is evaluated twice).   *)
C32_RemovalKeepsPass ==
    (PassOver /\ removed # <<>>) =>
        /\ \A i \in 1..Len(alertConfigs) :
              Count(visited, alertConfigs[i]) >= Count(alertConfigs, alertConfigs[i])
        /\ \A i \in 1..Len(visited) :
              Count(visited, visited[i])
                 <= Count(alertConfigs, visited[i]) + Count(removed, visited[i])

(* C33: a pass calls fetchMarketData at most once for a marketId; a        *)
(* condition the loop reaches unfired, on a market the pass has already    *)
(* fetched, is skipped on the rate limit and nothing is written for it,    *)
(* whatever the earlier fetch and its notification came to.                *)
C33_OneFetchPerMarket ==
    [][ /\ \A m \in Markets : Count(fetched', m) <= 1
        /\ ( /\ AtElement
             /\ ~ Includes(triggeredAlerts, AlertKey(Element))
             /\ Includes(fetched, Element.marketId) )
              => /\ pc' = "loop"
                 /\ idx' = idx + 1
                 /\ rateSkips'
                 /\ UNCHANGED << lastChecked, triggeredAlerts, alerts, fetched,
                                 webhook >> ]_vars

(* The second condition has just been skipped on a market whose fetch for  *)
(* the first condition was followed, in this pass, by a notification that  *)
(* failed.                                                                 *)
C33_Witness ==
    /\ pc = "loop"
    /\ idx = 3
    /\ config = alertConfigs[2]
    /\ alertConfigs[1].marketId = config.marketId
    /\ alertConfigs[1] # config
    /\ fetched = << config.marketId >>
    /\ lastFailed = ConditionKey(alertConfigs[1])
    /\ rateSkips
    /\ ~ Fired(config)

(* C34: a condition the loop passes over as already fired has had a        *)
(* notification answered OK for its own (marketId, outcome, threshold,     *)
(* direction), and two conditions in the list that differ in one of the    *)
(* four have different alert keys, also when a marketId or an outcome      *)
(* holds the '-' the key is joined with.                                   *)
C34_SkippedOnlyIfNotified ==
    /\ (AtElement /\ AlreadyTriggered(Element)) =>
           ConditionKey(Element) \in DOMAIN delivered
    /\ \A i, j \in 1..Len(alertConfigs) :
           ConditionKey(alertConfigs[i]) # ConditionKey(alertConfigs[j])
              => AlertKey(alertConfigs[i]) # AlertKey(alertConfigs[j])

(* f[m] || 0 *)
OrZero(f, m) == IF m \in DOMAIN f THEN f[m] ELSE 0

(* C35: state.lastChecked of a market never decreases; a step that writes  *)
(* it raises it by 60 s or more over what it held (over 0 when it held     *)
(* nothing), and is the step of a pass that goes on to call                *)
(* fetchMarketData for that market.                                        *)
C35_StampOnlyRises ==
    [][ \A m \in Markets :
          /\ OrZero(lastChecked', m) >= OrZero(lastChecked, m)
          /\ m \in DOMAIN lastChecked => m \in DOMAIN lastChecked'
          /\ ( \/ OrZero(lastChecked', m) # OrZero(lastChecked, m)
               \/ (m \in DOMAIN lastChecked') # (m \in DOMAIN lastChecked) )
                => /\ OrZero(lastChecked', m) - OrZero(lastChecked, m) >= RATE_LIMIT_MS
                   /\ pc = "loop"
                   /\ pc' = "fetch"
                   /\ config'.marketId = m
                   /\ fetched' = Append(fetched, m) ]_vars

(* A market stamped in an earlier pass, whose notification failed then,    *)
(* has been stamped again 60 s later and its fetch is in flight.           *)
C35_Witness ==
    /\ pc = "fetch"
    /\ fetched = << config.marketId >>
    /\ lastChecked[config.marketId] = now
    /\ now = StartMs + 2 * TickMs
    /\ lastFailed = ConditionKey(config)
    /\ Len(alertConfigs) = 1

(* C36: for as long as an alert is listed, GET /alerts shows it under the  *)
(* id its POST /alerts returned, and a DELETE /alerts/:id that is answered *)
(* with success removes the alert whose POST returned that id, whatever    *)
(* was created or deleted in between.                                      *)
C36_IdKeepsNaming ==
    [][ /\ \A i \in 1..Len(alertConfigs) : ListAlerts.alerts[i].id = issued[i]
        /\ \A param \in Params :
              (DeleteAlerts(param) /\ reply'.status = 200)
                 => issued[ParseInt(param)[1] + 1] = ParseInt(param)[1] ]_vars

(* A log that is a USDC Transfer to the payment receiver of at least the   *)
(* expected amount, sent by the proof's payer                              *)
PaymentBy(log, proof) ==
    /\ log.decodes
    /\ ToLowerCase(log.address) = ToLowerCase(USDC_ADDRESS_BASE)
    /\ ToLowerCase(log.to) = ToLowerCase(PAYMENT_RECEIVER)
    /\ log.value >= ALERT_PRICE_USDC
    /\ ToLowerCase(log.from) = ToLowerCase(proof.payer)

(* C37: verifyPayment returns valid exactly when the proof's chain id is   *)
(* Base, the RPC returns a receipt whose status is 1 and whose block       *)
(* number is the proof's, and one of the receipt's logs is a USDC Transfer *)
(* to the receiver of at least the price from the proof's payer; otherwise *)
(* it returns invalid with an error text.                                  *)
C37_ValidExactlyWhenPaid ==
    verified # NoCall =>
        /\ verified.returned.valid <=>
              /\ verified.proof.chainId = BASE_CHAIN_ID
              /\ verified.rpc.kind = "receipt"
              /\ verified.rpc.receipt.status = 1
              /\ verified.rpc.receipt.blockNumber = verified.proof.blockNumber
              /\ \E i \in 1..Len(verified.rpc.receipt.logs) :
                    PaymentBy(verified.rpc.receipt.logs[i], verified.proof)
        /\ ~ verified.returned.valid => verified.returned.error # ""

====
